---------------------------- MODULE Spec2Model ----------------------------
(***************************************************************************)
(* Conditional logic and submission engine of the survey API.              *)
(*                                                                         *)
(* The storage holds the survey definition (sections, fields, options,     *)
(* conditional rules, field dependencies), the SurveyResponse table and    *)
(* the FieldAnswer table.  The HTTP handlers of SubmissionViewSet          *)
(* (start_survey, submit_section, get_current_section, finish_survey) are  *)
(* the actions; ConditionalLogicService is a family of operators over the  *)
(* stored rows.                                                            *)
(***************************************************************************)
EXTENDS Integers, Sequences, FiniteSets, TLC

VARIABLES
    responses,      \* table survey_responses, in creation order; the session token of row i is i
    fieldAnswers,   \* table field_answers, listed by (response, field)
    now,            \* the clock read by timezone.now()
    finished,       \* history: tokens for which finish_survey has answered 200
    wk,             \* per worker: the request it handles, its position, its loaded objects,
                    \* its answer and (history) the tables as its answering step found them
    cache,          \* django.core.cache: the live entries, cache key -> value
    userSessions,   \* table user_sessions, in creation order; the id of row i is i
    tokens          \* the JWTs that login and refresh have handed out

vars == <<responses, fieldAnswers, now, finished, wk, cache, userSessions, tokens>>

----------------------------------------------------------------------------
(* Bounds of the model *)

\* sessions that start_survey may create
MaxResponses == 1
\* sessions in the runs of two sessions side by side
MaxSessions == 2
\* answers in one submit-section payload
MaxAnswers == 2
\* readings of the clock by finish_survey and by logout
MaxClock == 3
\* conditional rules in a rule list handed to the visibility folds
MaxRules == 2
\* login sessions that LoginView may create
MaxLogins == 2

----------------------------------------------------------------------------
(* Generic helpers *)

NULL == "NULL"

Range(s) == {s[i] : i \in DOMAIN s}

\* a dict: a function whose domain is the set of keys present
EmptyDict == <<>>

DictPut(d, k, v) == [x \in (DOMAIN d) \cup {k} |-> IF x = k THEN v ELSE d[x]]

DictGet(d, k, default) == IF k \in DOMAIN d THEN d[k] ELSE default

----------------------------------------------------------------------------
(* JSON values of a payload and their Python conversions *)

JStr(s) == [t |-> "str", s |-> s, n |-> 0]
JInt(n) == [t |-> "int", s |-> "", n |-> n]
JNull == [t |-> "null", s |-> "", n |-> 0]

Digit(d) ==
    CASE d = 0 -> "0" [] d = 1 -> "1" [] d = 2 -> "2" [] d = 3 -> "3" [] d = 4 -> "4"
      [] d = 5 -> "5" [] d = 6 -> "6" [] d = 7 -> "7" [] d = 8 -> "8" [] d = 9 -> "9"

RECURSIVE NatStr(_)
NatStr(n) == IF n < 10 THEN Digit(n) ELSE NatStr(n \div 10) \o Digit(n % 10)

\* str(value)
PyStr(v) ==
    CASE v.t = "str" -> v.s
      [] v.t = "int" -> IF v.n < 0 THEN "-" \o NatStr(0 - v.n) ELSE NatStr(v.n)
      [] v.t = "null" -> "None"

\* `value is None or value == ''`
IsBlank(v) == v.t = "null" \/ (v.t = "str" /\ v.s = "")

\* the characters of the strings the model uses
Chars(s) ==
    CASE s = "" -> <<>>
      [] s = "yes" -> <<"y", "e", "s">>
      [] s = "no" -> <<"n", "o">>
      [] s = "abc" -> <<"a", "b", "c">>
      [] s = "42" -> <<"4", "2">>
      [] s = "None" -> <<"N", "o", "n", "e">>
      [] s = "NaN" -> <<"N", "a", "N">>
      [] s = "yes, no" -> <<"y", "e", "s", ",", " ", "n", "o">>
      [] s = "B" -> <<"B">>
      [] s = "18" -> <<"1", "8">>

Digits == {"0", "1", "2", "3", "4", "5", "6", "7", "8", "9"}

Lower(c) ==
    CASE c = "N" -> "n" [] c = "B" -> "b" [] c = "A" -> "a" [] c = "I" -> "i"
      [] c = "F" -> "f" [] OTHER -> c

LowerSeq(cs) == [i \in DOMAIN cs |-> Lower(cs[i])]

DigitVal(c) == CHOOSE d \in 0..9 : Digit(d) = c

RECURSIVE DigitsVal(_)
DigitsVal(cs) ==
    IF cs = <<>> THEN 0 ELSE 10 * DigitsVal(SubSeq(cs, 1, Len(cs) - 1)) + DigitVal(cs[Len(cs)])

\* float(s) for a string: [ok, kind, n]; kind is num, nan or inf.  Covers signed
\* decimal integers and the special names; anything else raises ValueError.
FloatOfChars(cs) ==
    LET signed == cs # <<>> /\ cs[1] \in {"+", "-"}
        body == IF signed THEN Tail(cs) ELSE cs
        neg == signed /\ cs[1] = "-"
        low == LowerSeq(body)
    IN  IF body # <<>> /\ \A i \in DOMAIN body : body[i] \in Digits
            THEN [ok |-> TRUE, kind |-> "num",
                  n |-> IF neg THEN 0 - DigitsVal(body) ELSE DigitsVal(body)]
        ELSE IF low = <<"n", "a", "n">>
            THEN [ok |-> TRUE, kind |-> "nan", n |-> 0]
        ELSE IF low \in {<<"i", "n", "f">>, <<"i", "n", "f", "i", "n", "i", "t", "y">>}
            THEN [ok |-> TRUE, kind |-> "inf", n |-> IF neg THEN 0 - 1 ELSE 1]
        ELSE [ok |-> FALSE, kind |-> "num", n |-> 0]

\* float(value) for a JSON value: a TypeError for null, a ValueError for bad text
PyFloat(v) ==
    CASE v.t = "int" -> [ok |-> TRUE, kind |-> "num", n |-> v.n]
      [] v.t = "str" -> FloatOfChars(Chars(v.s))
      [] v.t = "null" -> [ok |-> FALSE, kind |-> "num", n |-> 0]

\* a > b on floats
FloatGreater(a, b) ==
    IF a.kind = "nan" \/ b.kind = "nan" THEN FALSE
    ELSE IF a.kind = "inf" /\ b.kind = "inf" THEN a.n > b.n
    ELSE IF a.kind = "inf" THEN a.n > 0
    ELSE IF b.kind = "inf" THEN b.n < 0
    ELSE a.n > b.n

\* `needle in haystack` on character sequences
IsSubstring(needle, hay) ==
    \E i \in 0..(Len(hay) - Len(needle)) : SubSeq(hay, i + 1, i + Len(needle)) = needle

\* s.strip() on a character sequence
RECURSIVE Strip(_)
Strip(cs) ==
    IF cs # <<>> /\ cs[1] = " " THEN Strip(Tail(cs))
    ELSE IF cs # <<>> /\ cs[Len(cs)] = " " THEN Strip(SubSeq(cs, 1, Len(cs) - 1))
    ELSE cs

\* [v.strip() for v in s.split(',')] as a set of character sequences
RECURSIVE SplitComma(_, _)
SplitComma(cs, cur) ==
    IF cs = <<>> THEN {Strip(cur)}
    ELSE IF cs[1] = "," THEN {Strip(cur)} \cup SplitComma(Tail(cs), <<>>)
    ELSE SplitComma(Tail(cs), Append(cur, cs[1]))


----------------------------------------------------------------------------
(* The survey definitions held by the storage *)

\* surveys.models.Survey rows
Surveys ==
    { [id |-> "sv1", status |-> "published"],
      [id |-> "sv2", status |-> "published"],
      [id |-> "sv3", status |-> "published"],     \* a survey without sections
      [id |-> "sv0", status |-> "draft"],
      [id |-> "sv4", status |-> "closed"] }

\* surveys.models.Section rows
Sections ==
    { [id |-> "S1", survey |-> "sv1", title |-> "Section 1", order |-> 1],
      [id |-> "S2", survey |-> "sv1", title |-> "Section 2", order |-> 2],
      [id |-> "T1", survey |-> "sv2", title |-> "Location", order |-> 1],
      [id |-> "S0", survey |-> "sv0", title |-> "Draft section", order |-> 1] }

\* surveys.models.Field rows
Fields ==
    { [id |-> "F1", section |-> "S1", label |-> "Are you a customer?", field_type |-> "radio",
       is_required |-> FALSE, is_sensitive |-> FALSE, has_dependencies |-> FALSE, order |-> 1],
      [id |-> "F2", section |-> "S2", label |-> "Customer details", field_type |-> "text",
       is_required |-> FALSE, is_sensitive |-> TRUE, has_dependencies |-> FALSE, order |-> 1],
      [id |-> "F3", section |-> "S2", label |-> "Age", field_type |-> "number",
       is_required |-> FALSE, is_sensitive |-> FALSE, has_dependencies |-> FALSE, order |-> 2],
      [id |-> "F4", section |-> "S2", label |-> "Reason", field_type |-> "text",
       is_required |-> TRUE, is_sensitive |-> FALSE, has_dependencies |-> FALSE, order |-> 3],
      [id |-> "G1", section |-> "T1", label |-> "Country", field_type |-> "radio",
       is_required |-> FALSE, is_sensitive |-> FALSE, has_dependencies |-> FALSE, order |-> 1],
      [id |-> "G2", section |-> "T1", label |-> "Department", field_type |-> "dropdown",
       is_required |-> FALSE, is_sensitive |-> FALSE, has_dependencies |-> TRUE, order |-> 2] }

\* surveys.models.FieldOption rows
FieldOptions ==
    { [field |-> "F1", label |-> "Yes", value |-> "yes", order |-> 1],
      [field |-> "F1", label |-> "No", value |-> "no", order |-> 2],
      [field |-> "G1", label |-> "USA", value |-> "us", order |-> 1],
      [field |-> "G1", label |-> "Nigeria", value |-> "ng", order |-> 2],
      [field |-> "G2", label |-> "Sales", value |-> "sales", order |-> 1],
      [field |-> "G2", label |-> "Operations", value |-> "ops", order |-> 2] }

\* surveys.models.ConditionalRule rows, in the order the storage returns them
ConditionalRules ==
    << [target_type |-> "section", target_id |-> "S2", source_field |-> "F1",
        operator |-> "equals", value |-> "no", action |-> "hide"],
       [target_type |-> "field", target_id |-> "F4", source_field |-> "F3",
        operator |-> "greater_than", value |-> "18", action |-> "hide"] >>

\* surveys.models.FieldDependency rows, in creation order
FieldDependencies ==
    << [dependent_field |-> "G2", source_field |-> "G1", source_value |-> "us",
        dependent_options |-> <<[label |-> "Sales", value |-> "sales"],
                                [label |-> "Support", value |-> "support"]>>],
       [dependent_field |-> "G2", source_field |-> "G1", source_value |-> "us",
        dependent_options |-> <<[label |-> "Operations", value |-> "ops"]>>] >>

SurveyIds == {s.id : s \in Surveys}
SectionIds == {s.id : s \in Sections}
FieldIds == {f.id : f \in Fields}

FieldById(fid) == CHOOSE f \in Fields : f.id = fid
SectionById(sid) == CHOOSE s \in Sections : s.id = sid

\* a queryset ordered by 'order': the rows of a set, lowest order first
RECURSIVE OrderBy(_)
OrderBy(rowset) ==
    IF rowset = {} THEN <<>>
    ELSE LET first == CHOOSE r \in rowset : \A o \in rowset : r.order <= o.order
         IN  <<first>> \o OrderBy(rowset \ {first})

\* survey.sections.all() (Section.Meta.ordering = ['order'])
SectionsOf(sv) == OrderBy({s \in Sections : s.survey = sv})

\* section.fields.all() (Field.Meta.ordering = ['order'])
FieldsOf(sid) == OrderBy({f \in Fields : f.section = sid})

\* field.options.all().order_by('order') as {label, value} dicts
DefaultOptions(fid) ==
    LET opts == OrderBy({o \in FieldOptions : o.field = fid})
    IN  [i \in DOMAIN opts |-> [label |-> opts[i].label, value |-> opts[i].value]]

\* the survey a field belongs to (source_field__section__survey)
FieldSurvey(fid) == SectionById(FieldById(fid).section).survey

----------------------------------------------------------------------------
(* submissions.encryption.EncryptionService, an external collaborator *)

Encrypt(plaintext) == [ct |-> plaintext]

\* stored bytes that decrypt rejects: too short, tampered with, or under another key
Damaged == [ct |-> NULL]

\* decrypt raises DecryptionError
DecryptFails(ciphertext) == ciphertext = Damaged

Decrypt(ciphertext) == ciphertext.ct

----------------------------------------------------------------------------
(* ConditionalLogicService *)

\* the rows of one response, in table order
AnswersOf(rows, rid) == SelectSeq(rows, LAMBDA a : a.response = rid)

\* a loop that ends at the first answer it cannot decrypt
RECURSIVE AnswersDictFrom_BreakOnFailure(_, _, _)
AnswersDictFrom_BreakOnFailure(mine, i, acc) ==
    IF i > Len(mine) THEN acc
    ELSE LET a == mine[i]
             encrypted == FieldById(a.field).is_sensitive /\ a.encrypted_value # <<>>
             value == IF encrypted THEN Decrypt(a.encrypted_value[1])
                      ELSE IF a.value # <<>> /\ a.value[1] # "" THEN a.value[1]
                      ELSE ""
         IN  IF encrypted /\ DecryptFails(a.encrypted_value[1]) THEN acc
             ELSE AnswersDictFrom_BreakOnFailure(mine, i + 1, DictPut(acc, a.field, value))

\* get_all_answers_for_response: field id -> plain value; an answer of which the
\* decryption raises is skipped
RECURSIVE AnswersDictFrom(_, _, _)
AnswersDictFrom(mine, i, acc) ==
    IF i > Len(mine) THEN acc
    ELSE LET a == mine[i]
             encrypted == FieldById(a.field).is_sensitive /\ a.encrypted_value # <<>>
             value == IF encrypted THEN Decrypt(a.encrypted_value[1])
                      ELSE IF a.value # <<>> /\ a.value[1] # "" THEN a.value[1]
                      ELSE ""
         IN  IF encrypted /\ DecryptFails(a.encrypted_value[1])
                 THEN AnswersDictFrom(mine, i + 1, acc)
             ELSE AnswersDictFrom(mine, i + 1, DictPut(acc, a.field, value))

get_all_answers_for_response(rows, rid) == AnswersDictFrom(AnswersOf(rows, rid), 1, EmptyDict)

\* an evaluate_rule whose except clauses answer True
evaluate_rule_ExceptReturnsTrue(rule, answers_dict) ==
    LET answer_value == DictGet(answers_dict, rule.source_field, "")
        rule_value == IF rule.value = NULL THEN "" ELSE rule.value
        fa == FloatOfChars(Chars(answer_value))
        fr == FloatOfChars(Chars(rule_value))
    IN  IF answer_value = "" THEN rule.operator = "is_empty"
        ELSE CASE rule.operator = "equals" -> answer_value = rule_value
               [] rule.operator = "not_equals" -> answer_value # rule_value
               [] rule.operator = "greater_than" ->
                      IF fa.ok /\ fr.ok THEN FloatGreater(fa, fr) ELSE TRUE
               [] rule.operator = "less_than" ->
                      IF fa.ok /\ fr.ok THEN FloatGreater(fr, fa) ELSE TRUE
               [] rule.operator = "contains" ->
                      IsSubstring(LowerSeq(Chars(rule_value)), LowerSeq(Chars(answer_value)))
               [] rule.operator = "in" -> Chars(answer_value) \in SplitComma(Chars(rule_value), <<>>)
               [] rule.operator = "is_empty" -> FALSE
               [] rule.operator = "is_not_empty" -> TRUE
               [] OTHER -> FALSE

\* an evaluate_rule without the "Handle empty/null answers" block
evaluate_rule_NoEmptyGuard(rule, answers_dict) ==
    LET answer_value == DictGet(answers_dict, rule.source_field, "")
        rule_value == IF rule.value = NULL THEN "" ELSE rule.value
        fa == FloatOfChars(Chars(answer_value))
        fr == FloatOfChars(Chars(rule_value))
    IN  CASE rule.operator = "equals" -> answer_value = rule_value
          [] rule.operator = "not_equals" -> answer_value # rule_value
          [] rule.operator = "greater_than" -> fa.ok /\ fr.ok /\ FloatGreater(fa, fr)
          [] rule.operator = "less_than" -> fa.ok /\ fr.ok /\ FloatGreater(fr, fa)
          [] rule.operator = "contains" ->
                 IsSubstring(LowerSeq(Chars(rule_value)), LowerSeq(Chars(answer_value)))
          [] rule.operator = "in" -> Chars(answer_value) \in SplitComma(Chars(rule_value), <<>>)
          [] rule.operator = "is_empty" -> answer_value = ""
          [] rule.operator = "is_not_empty" -> answer_value # ""
          [] OTHER -> FALSE

\* ConditionalLogicService.evaluate_rule
evaluate_rule(rule, answers_dict) ==
    LET answer_value == DictGet(answers_dict, rule.source_field, "")
        rule_value == IF rule.value = NULL THEN "" ELSE rule.value
        fa == FloatOfChars(Chars(answer_value))
        fr == FloatOfChars(Chars(rule_value))
    IN  IF answer_value = "" THEN rule.operator = "is_empty"
        ELSE CASE rule.operator = "equals" -> answer_value = rule_value
               [] rule.operator = "not_equals" -> answer_value # rule_value
               [] rule.operator = "greater_than" -> fa.ok /\ fr.ok /\ FloatGreater(fa, fr)
               [] rule.operator = "less_than" -> fa.ok /\ fr.ok /\ FloatGreater(fr, fa)
               [] rule.operator = "contains" ->
                      IsSubstring(LowerSeq(Chars(rule_value)), LowerSeq(Chars(answer_value)))
               [] rule.operator = "in" -> Chars(answer_value) \in SplitComma(Chars(rule_value), <<>>)
               [] rule.operator = "is_empty" -> FALSE
               [] rule.operator = "is_not_empty" -> TRUE
               [] OTHER -> FALSE

\* a loop in which a target, once a met rule has decided it, is skipped by later rules
RECURSIVE ApplyRules_FirstWins(_, _, _, _, _)
ApplyRules_FirstWins(rules, i, targets, answers_dict, visible) ==
    IF i > Len(rules) THEN visible
    ELSE LET rule == rules[i]
             decided == \E k \in 1..(i - 1) :
                            /\ rules[k].target_id = rule.target_id
                            /\ evaluate_rule(rules[k], answers_dict)
             met == /\ rule.target_id \in targets
                    /\ evaluate_rule(rule, answers_dict)
                    /\ ~decided
             next == IF ~met THEN visible
                     ELSE IF rule.action = "hide" THEN visible \ {rule.target_id}
                     ELSE IF rule.action = "show" THEN visible \cup {rule.target_id}
                     ELSE visible
         IN  ApplyRules_FirstWins(rules, i + 1, targets, answers_dict, next)

\* the loop over rules shared by get_visible_sections and get_visible_fields:
\* every rule of `rules` whose target is in `targets` and whose condition is met
\* discards (hide) or adds (show) its target, in iteration order
RECURSIVE ApplyRules(_, _, _, _, _)
ApplyRules(rules, i, targets, answers_dict, visible) ==
    IF i > Len(rules) THEN visible
    ELSE LET rule == rules[i]
             met == rule.target_id \in targets /\ evaluate_rule(rule, answers_dict)
             next == IF ~met THEN visible
                     ELSE IF rule.action = "hide" THEN visible \ {rule.target_id}
                     ELSE IF rule.action = "show" THEN visible \cup {rule.target_id}
                     ELSE visible
         IN  ApplyRules(rules, i + 1, targets, answers_dict, next)

\* ConditionalRule.objects.filter(source_field__section__survey=sv, target_type=tt)
RulesFor(sv, tt) ==
    SelectSeq(ConditionalRules, LAMBDA r : FieldSurvey(r.source_field) = sv /\ r.target_type = tt)

\* the section rules fold over all sections of the survey; a section rule applies
\* whatever its target id is
FoldSectionRules(rules, all_sections, answers_dict) ==
    ApplyRules(rules, 1, all_sections \cup {r.target_id : r \in Range(rules)}, answers_dict,
               all_sections)

\* get_visible_sections from "Get all sections in the survey" on, for the rules the
\* storage returns
VisibleSectionsWith(rules, sv, answers_dict) ==
    FoldSectionRules(rules, {s.id : s \in Range(SectionsOf(sv))}, answers_dict)

get_visible_sections(rows, sv, rid) ==
    VisibleSectionsWith(RulesFor(sv, "section"), sv, get_all_answers_for_response(rows, rid))

\* the field rules fold over the fields of the section; a rule whose target is not
\* in field_ids is skipped
FoldFieldRules(rules, field_ids, answers_dict) ==
    ApplyRules(rules, 1, field_ids, answers_dict, field_ids)

\* get_visible_fields from "Start with all fields in section visible" on, for the
\* rules the storage returns
VisibleFieldsWith(rules, sid, answers_dict) ==
    FoldFieldRules(rules, {f.id : f \in Range(FieldsOf(sid))}, answers_dict)

get_visible_fields(rows, sid, rid) ==
    VisibleFieldsWith(RulesFor(SectionById(sid).survey, "field"), sid,
                      get_all_answers_for_response(rows, rid))

\* the dependent_options of the first dependency row the source answer matches
RECURSIVE FirstMatchingDependency(_, _, _)
FirstMatchingDependency(deps, i, answers_dict) ==
    IF i > Len(deps) THEN [found |-> FALSE, options |-> <<>>]
    ELSE IF DictGet(answers_dict, deps[i].source_field, "") = deps[i].source_value
        THEN [found |-> TRUE, options |-> deps[i].dependent_options]
    ELSE FirstMatchingDependency(deps, i + 1, answers_dict)

\* a fallback that offers nothing when no dependency row matches
DependentOrDefault_EmptyFallback(hit, fid) == IF hit.found THEN hit.options ELSE <<>>

\* get_field_options: the matching row's dependent_options, else the default options
DependentOrDefault(hit, fid) == IF hit.found THEN hit.options ELSE DefaultOptions(fid)

\* get_field_options for the dependency rows the storage returns
FieldOptionsWith(deps, rows, fid, rid) ==
    IF ~FieldById(fid).has_dependencies THEN DefaultOptions(fid)
    ELSE DependentOrDefault(
             FirstMatchingDependency(deps, 1, get_all_answers_for_response(rows, rid)), fid)

get_field_options(rows, fid, rid) ==
    FieldOptionsWith(SelectSeq(FieldDependencies, LAMBDA d : d.dependent_field = fid),
                     rows, fid, rid)

\* the messages of the error map
MsgSectionNotAvailable(title) ==
    "Section '" \o title \o "' is not available based on your previous answers."
MsgFieldNotAvailable == "This field is not available based on your previous answers."
MsgNotInSection == "Field does not belong to this section."
\* ', '.join(option_labels)
RECURSIVE JoinLabels(_, _)
JoinLabels(options, i) ==
    IF i > Len(options) THEN ""
    ELSE IF i = Len(options) THEN options[i].label
    ELSE options[i].label \o ", " \o JoinLabels(options, i + 1)

MsgInvalidOption(options) ==
    "Invalid option selected. Available options: " \o JoinLabels(options, 1)
MsgRequired == "This field is required."
MsgNotANumber(value) == "Value '" \o PyStr(value) \o "' is not a valid number"
MsgNotAnOption(value) == "Value '" \o PyStr(value) \o "' is not a valid option"

\* validate_submission, step 3: the loop over the submitted answers
RECURSIVE CheckSubmittedAnswers(_, _, _, _, _, _, _)
CheckSubmittedAnswers(rows, sid, rid, answers_data, i, visible_fields, errors) ==
    IF i > Len(answers_data) THEN errors
    ELSE LET field_id == answers_data[i].field_id
             value == answers_data[i].value
             in_section == \E f \in Fields : f.id = field_id /\ f.section = sid
             option_values == {o.value : o \in Range(get_field_options(rows, field_id, rid))}
             next ==
                 IF field_id \notin visible_fields
                     THEN DictPut(errors, field_id, MsgFieldNotAvailable)
                 ELSE IF ~in_section
                     THEN DictPut(errors, field_id, MsgNotInSection)
                 ELSE IF FieldById(field_id).has_dependencies
                         /\ ~(value.t = "str" /\ value.s \in option_values)
                     THEN DictPut(errors, field_id,
                                  MsgInvalidOption(get_field_options(rows, field_id, rid)))
                 ELSE errors
         IN  CheckSubmittedAnswers(rows, sid, rid, answers_data, i + 1, visible_fields, next)

\* validate_submission, step 4: visible required fields that the payload does not name
RECURSIVE CheckRequiredProvided(_, _, _, _, _)
CheckRequiredProvided(section_fields, i, visible_fields, provided_field_ids, errors) ==
    IF i > Len(section_fields) THEN errors
    ELSE LET field == section_fields[i]
             next == IF field.id \in visible_fields /\ field.is_required
                         /\ field.id \notin provided_field_ids
                         THEN DictPut(errors, field.id, MsgRequired)
                     ELSE errors
         IN  CheckRequiredProvided(section_fields, i + 1, visible_fields, provided_field_ids, next)

ValidationResult(errors) == [is_valid |-> DOMAIN errors = {}, errors |-> errors]

\* steps 2 to 4 with the field visibility resolved on the stored answers overlaid
\* with the values of the payload
ValidateFields_PayloadFirst(rows, sid, answers_data, rid, visible_fields) ==
    LET stored == get_all_answers_for_response(rows, rid)
        sent == {a.field_id : a \in Range(answers_data)}
        merged == [k \in DOMAIN stored \cup sent |->
                      IF k \in sent
                          THEN PyStr((CHOOSE a \in Range(answers_data) : a.field_id = k).value)
                      ELSE stored[k]]
        visible == VisibleFieldsWith(RulesFor(SectionById(sid).survey, "field"), sid, merged)
    IN  CheckRequiredProvided(FieldsOf(sid), 1, visible,
            {a.field_id : a \in Range(answers_data)},
            CheckSubmittedAnswers(rows, sid, rid, answers_data, 1, visible, EmptyDict))

\* validate_submission, steps 2 to 4, for a visible section
ValidateFields(rows, sid, answers_data, rid, visible_fields) ==
    CheckRequiredProvided(FieldsOf(sid), 1, visible_fields,
        {a.field_id : a \in Range(answers_data)},
        CheckSubmittedAnswers(rows, sid, rid, answers_data, 1, visible_fields, EmptyDict))

\* a validate_submission that records the section error and goes on to the fields
validate_submission_NoEarlyReturn(rows, sid, answers_data, sv, rid) ==
    IF sid \notin get_visible_sections(rows, sv, rid)
        THEN ValidationResult(DictPut(ValidateFields(rows, sid, answers_data, rid,
                                                     get_visible_fields(rows, sid, rid)),
                                      "section", MsgSectionNotAvailable(SectionById(sid).title)))
    ELSE ValidationResult(ValidateFields(rows, sid, answers_data, rid,
                                         get_visible_fields(rows, sid, rid)))

\* validate_submission: [is_valid, errors]
validate_submission(rows, sid, answers_data, sv, rid) ==
    IF sid \notin get_visible_sections(rows, sv, rid)
        THEN ValidationResult(DictPut(EmptyDict, "section",
                                      MsgSectionNotAvailable(SectionById(sid).title)))
    ELSE ValidationResult(ValidateFields(rows, sid, answers_data, rid,
                                         get_visible_fields(rows, sid, rid)))

\* a completed set that waits for every required field of the section
CompletedSections_AllRequiredAnswered(rows, rid) ==
    {sid \in {FieldById(a.field).section : a \in Range(AnswersOf(rows, rid))} :
        \A f \in Fields :
            (f.section = sid /\ f.is_required)
                => \E a \in Range(AnswersOf(rows, rid)) : a.field = f.id}

\* the sections holding at least one answer of the response
\* (values_list('field__section_id').distinct())
CompletedSections(rows, rid) == {FieldById(a.field).section : a \in Range(AnswersOf(rows, rid))}

\* round(completed / total * 100, 2), in hundredths of a percent
Percentage(completed, total) ==
    IF total > 0 THEN (2 * completed * 10000 + total) \div (2 * total) ELSE 0

\* a progress dict whose sections_remaining is one too high
ProgressDict_RemainingOffByOne(sections_completed, total_sections) ==
    [sections_completed |-> sections_completed,
     total_sections |-> total_sections,
     sections_remaining |-> total_sections - sections_completed + 1,
     percentage |-> Percentage(sections_completed, total_sections)]

ProgressDict(sections_completed, total_sections) ==
    [sections_completed |-> sections_completed,
     total_sections |-> total_sections,
     sections_remaining |-> total_sections - sections_completed,
     percentage |-> Percentage(sections_completed, total_sections)]

\* a get_survey_progress that counts every section with an answer, visible or not
CountProgress_CountsHidden(all_sections, visible_sections, completed_section_ids) ==
    ProgressDict(
        Cardinality({i \in DOMAIN all_sections : all_sections[i].id \in completed_section_ids}),
        Cardinality({i \in DOMAIN all_sections : all_sections[i].id \in visible_sections}))

CountProgress(all_sections, visible_sections, completed_section_ids) ==
    ProgressDict(
        Cardinality({i \in DOMAIN all_sections :
                        /\ all_sections[i].id \in completed_section_ids
                        /\ all_sections[i].id \in visible_sections}),
        Cardinality({i \in DOMAIN all_sections : all_sections[i].id \in visible_sections}))

get_survey_progress(rows, sv, rid) ==
    CountProgress(SectionsOf(sv), get_visible_sections(rows, sv, rid), CompletedSections(rows, rid))

\* a get_current_section that walks the sections without asking whether they are visible
OpenSections_IgnoresVisibility(all_sections, visible_sections, completed_sections) ==
    SelectSeq(all_sections, LAMBDA s : s.id \notin completed_sections)

\* the sections, in order, that are visible and have no answer
OpenSections(all_sections, visible_sections, completed_sections) ==
    SelectSeq(all_sections,
              LAMBDA s : s.id \in visible_sections /\ s.id \notin completed_sections)

CurrentSectionResult(open, progress) ==
    IF open # <<>>
        THEN [current_section |-> open[1].id, is_complete |-> FALSE, progress |-> progress]
    ELSE [current_section |-> NULL, is_complete |-> TRUE, progress |-> progress]

\* get_current_section: the first section in order that is visible and has no answer
get_current_section(rows, sv, rid) ==
    CurrentSectionResult(
        OpenSections(SectionsOf(sv), get_visible_sections(rows, sv, rid),
                     CompletedSections(rows, rid)),
        get_survey_progress(rows, sv, rid))

is_survey_complete(rows, sv, rid) == get_current_section(rows, sv, rid).is_complete

\* one field_info dict of get_section_with_fields.  The optional keys current_value
\* and options are <<>> when the key is absent, else <<value>>.
FieldInfo(rows, field, rid, answers_dict) ==
    [field_id |-> field.id, label |-> field.label, field_type |-> field.field_type,
     is_required |-> field.is_required,
     current_value |-> IF DictGet(answers_dict, field.id, "") # ""
                           THEN <<DictGet(answers_dict, field.id, "")>>
                       ELSE <<>>,
     options |-> IF field.field_type \in {"dropdown", "radio", "checkbox"}
                     THEN <<get_field_options(rows, field.id, rid)>>
                 ELSE <<>>]

\* fields_info: the visible fields of the section, in order
FieldsInfo(rows, section_fields, visible_fields, rid, answers_dict) ==
    LET shown == SelectSeq(section_fields, LAMBDA f : f.id \in visible_fields)
    IN  [i \in DOMAIN shown |-> FieldInfo(rows, shown[i], rid, answers_dict)]

\* get_section_with_fields; answers_dict stays empty unless include_current_values
get_section_with_fields(rows, sid, rid, include_current_values) ==
    [section_id |-> sid, title |-> SectionById(sid).title, order |-> SectionById(sid).order,
     fields |-> FieldsInfo(rows, FieldsOf(sid), get_visible_fields(rows, sid, rid), rid,
                           IF include_current_values
                               THEN get_all_answers_for_response(rows, rid)
                           ELSE EmptyDict)]

\* the None of get_section
NoSection == [found |-> FALSE]

SectionFound(rows, section_id, sv, rid) ==
    [found |-> TRUE, section |-> get_section_with_fields(rows, section_id, rid, TRUE),
     is_editable |-> TRUE, progress |-> get_survey_progress(rows, sv, rid)]

\* a get_section without the "Check if section is visible" block
get_section_NoVisibilityCheck(rows, section_id, sv, rid) ==
    IF ~\E s \in Sections : s.id = section_id /\ s.survey = sv THEN NoSection
    ELSE SectionFound(rows, section_id, sv, rid)

\* ConditionalLogicService.get_section for a response of survey sv
get_section(rows, section_id, sv, rid) ==
    IF ~\E s \in Sections : s.id = section_id /\ s.survey = sv THEN NoSection
    ELSE IF section_id \notin get_visible_sections(rows, sv, rid) THEN NoSection
    ELSE SectionFound(rows, section_id, sv, rid)

----------------------------------------------------------------------------
(* submissions.models.FieldAnswer and the queryset calls of the view *)

Truthy(col) == col # <<>> /\ col[1] # ""

\* FieldAnswer.save: what the object holds when the row is written
FieldAnswer_save(obj) ==
    IF FieldById(obj.field).is_sensitive
        THEN IF Truthy(obj.value)
                 THEN [obj EXCEPT !.encrypted_value = <<Encrypt(obj.value[1])>>, !.value = <<>>]
             ELSE obj
    ELSE IF Truthy(obj.value) THEN [obj EXCEPT !.encrypted_value = <<>>]
    ELSE obj

\* the rank of a field in the survey: its section's order, then its own
FieldRank(fid) == 10 * SectionById(FieldById(fid).section).order + FieldById(fid).order

\* INSERT INTO field_answers.  No query of the code orders this table, so the model
\* lists its rows by (response, field) instead of by creation; a row with the key of
\* an existing one is listed after it.
InsertRow(rows, row) ==
    LET before == {i \in DOMAIN rows :
                      \/ rows[i].response < row.response
                      \/ /\ rows[i].response = row.response
                         /\ FieldRank(rows[i].field) <= FieldRank(row.field)}
    IN  SubSeq(rows, 1, Cardinality(before)) \o <<row>>
            \o SubSeq(rows, Cardinality(before) + 1, Len(rows))

\* an update_or_create whose lookup leaves out the response
update_or_create_ByFieldOnly(rows, rid, field_id, stored_value) ==
    LET hits == {i \in DOMAIN rows : rows[i].field = field_id}
    IN  IF hits # {}
            THEN LET i == CHOOSE k \in hits : \A j \in hits : k <= j
                     saved == FieldAnswer_save([rows[i] EXCEPT !.value = <<stored_value>>])
                 IN  [rows EXCEPT ![i].value = saved.value]
        ELSE InsertRow(rows, FieldAnswer_save([response |-> rid, field |-> field_id,
                                               value |-> <<stored_value>>,
                                               encrypted_value |-> <<>>]))

\* an upsert that deletes the row when the new value is blank
update_or_create_DeletesBlank(rows, rid, field_id, stored_value) ==
    LET hits == {i \in DOMAIN rows : rows[i].response = rid /\ rows[i].field = field_id}
    IN  IF hits # {}
            THEN LET i == CHOOSE k \in hits : \A j \in hits : k <= j
                     saved == FieldAnswer_save([rows[i] EXCEPT !.value = <<stored_value>>])
                 IN  IF stored_value = ""
                         THEN SubSeq(rows, 1, i - 1) \o SubSeq(rows, i + 1, Len(rows))
                     ELSE [rows EXCEPT ![i].value = saved.value]
        ELSE InsertRow(rows, FieldAnswer_save([response |-> rid, field |-> field_id,
                                               value |-> <<stored_value>>,
                                               encrypted_value |-> <<>>]))

\* a save loop that calls FieldAnswer.objects.create for every answer
update_or_create_AlwaysCreates(rows, rid, field_id, stored_value) ==
    InsertRow(rows, FieldAnswer_save([response |-> rid, field |-> field_id,
                                      value |-> <<stored_value>>, encrypted_value |-> <<>>]))

\* FieldAnswer.objects.update_or_create(response=, field_id=, defaults={'value': v}):
\* an existing row gets `value` set and is saved with update_fields = the defaults,
\* so only its value column is written; otherwise a row is created and saved whole
update_or_create(rows, rid, field_id, stored_value) ==
    LET hits == {i \in DOMAIN rows : rows[i].response = rid /\ rows[i].field = field_id}
    IN  IF hits # {}
            THEN LET i == CHOOSE k \in hits : \A j \in hits : k <= j
                     saved == FieldAnswer_save([rows[i] EXCEPT !.value = <<stored_value>>])
                 IN  [rows EXCEPT ![i].value = saved.value]
        ELSE InsertRow(rows, FieldAnswer_save([response |-> rid, field |-> field_id,
                                               value |-> <<stored_value>>,
                                               encrypted_value |-> <<>>]))

\* the INSERT of a table without the unique key on (response, field)
InsertUnique_NoConstraint(rows, rid, field_id, stored_value) ==
    InsertRow(rows, FieldAnswer_save([response |-> rid, field |-> field_id,
                                      value |-> <<stored_value>>, encrypted_value |-> <<>>]))

\* the create of update_or_create after its get found no row.  unique_together makes
\* the INSERT fail when another request has created the row meanwhile; get_or_create
\* then fetches that row and update_or_create updates it
InsertUnique(rows, rid, field_id, stored_value) ==
    IF \E i \in DOMAIN rows : rows[i].response = rid /\ rows[i].field = field_id
        THEN update_or_create(rows, rid, field_id, stored_value)
    ELSE InsertRow(rows, FieldAnswer_save([response |-> rid, field |-> field_id,
                                           value |-> <<stored_value>>,
                                           encrypted_value |-> <<>>]))

\* submit_section, "Save answers": one update_or_create per answer, in payload order
RECURSIVE SaveAnswers(_, _, _, _)
SaveAnswers(rows, rid, answers_data, i) ==
    IF i > Len(answers_data) THEN rows
    ELSE SaveAnswers(update_or_create(rows, rid, answers_data[i].field_id,
                                      PyStr(answers_data[i].value)),
                     rid, answers_data, i + 1)

\* a _validate_answer without the option lookup for dropdown and radio fields
validate_answer_NoOptionCheck(field, value) ==
    IF IsBlank(value) THEN [is_valid |-> TRUE, error |-> NULL]
    ELSE IF field.field_type = "number"
        THEN IF PyFloat(value).ok THEN [is_valid |-> TRUE, error |-> NULL]
             ELSE [is_valid |-> FALSE, error |-> MsgNotANumber(value)]
    ELSE [is_valid |-> TRUE, error |-> NULL]

\* SubmissionViewSet._validate_answer: [is_valid, error]
validate_answer(field, value) ==
    IF IsBlank(value) THEN [is_valid |-> TRUE, error |-> NULL]
    ELSE IF field.field_type = "number"
        THEN IF PyFloat(value).ok THEN [is_valid |-> TRUE, error |-> NULL]
             ELSE [is_valid |-> FALSE, error |-> MsgNotANumber(value)]
    ELSE IF field.field_type \in {"dropdown", "radio"}
        THEN IF \E o \in FieldOptions : o.field = field.id /\ o.value = PyStr(value)
                 THEN [is_valid |-> TRUE, error |-> NULL]
             ELSE [is_valid |-> FALSE, error |-> MsgNotAnOption(value)]
    ELSE [is_valid |-> TRUE, error |-> NULL]

\* provided_answers_map = {str(a['field_id']): a['value'] for a in answers_data}
RECURSIVE ProvidedAnswersMap(_, _, _)
ProvidedAnswersMap(answers_data, i, acc) ==
    IF i > Len(answers_data) THEN acc
    ELSE ProvidedAnswersMap(answers_data, i + 1,
                            DictPut(acc, answers_data[i].field_id, answers_data[i].value))

\* submit_section, "1. Check Required Fields"
RECURSIVE CheckRequiredFields(_, _, _, _)
CheckRequiredFields(section_fields, i, provided_answers_map, errors) ==
    IF i > Len(section_fields) THEN errors
    ELSE LET field == section_fields[i]
             next == IF field.is_required /\ IsBlank(DictGet(provided_answers_map, field.id, JNull))
                         THEN DictPut(errors, field.id, MsgRequired)
                     ELSE errors
         IN  CheckRequiredFields(section_fields, i + 1, provided_answers_map, next)

\* submit_section, "2. Check Types and Constraints"
RECURSIVE CheckTypes(_, _, _, _)
CheckTypes(section_fields, answers_data, i, errors) ==
    IF i > Len(answers_data) THEN errors
    ELSE LET field_id == answers_data[i].field_id
             found == {f \in Range(section_fields) : f.id = field_id}
             field == CHOOSE f \in found : TRUE
             res == validate_answer(field, answers_data[i].value)
             next == IF found = {} THEN DictPut(errors, field_id, MsgNotInSection)
                     ELSE IF ~res.is_valid THEN DictPut(errors, field_id, res.error)
                     ELSE errors
         IN  CheckTypes(section_fields, answers_data, i + 1, next)

\* the validation_errors map that submit_section builds after validate_submission passed
ViewValidationErrors(sid, answers_data) ==
    CheckTypes(FieldsOf(sid), answers_data, 1,
               CheckRequiredFields(FieldsOf(sid), 1, ProvidedAnswersMap(answers_data, 1, EmptyDict),
                                   EmptyDict))

----------------------------------------------------------------------------
(* Requests, HTTP responses and workers *)

Workers == {"w1", "w2"}

\* the X-Session-Token header: absent, or the token of a session (issued or not)
ClientTokens == {<<>>} \cup {<<t>> : t \in 1..MaxResponses}

\* the answers a client may put into a payload
AnswerChoices ==
    { [field_id |-> "F1", value |-> JStr("yes")],
      [field_id |-> "F1", value |-> JStr("no")],
      [field_id |-> "F1", value |-> JStr("abc")],
      [field_id |-> "F2", value |-> JStr("abc")],
      [field_id |-> "F2", value |-> JStr("")],
      [field_id |-> "F3", value |-> JStr("abc")],
      [field_id |-> "F3", value |-> JInt(42)],
      [field_id |-> "F3", value |-> JStr("42")],
      [field_id |-> "F3", value |-> JStr("NaN")],
      [field_id |-> "F4", value |-> JStr("abc")],
      [field_id |-> "F4", value |-> JStr("")],
      [field_id |-> "G1", value |-> JStr("us")],
      [field_id |-> "G1", value |-> JStr("ng")],
      [field_id |-> "G2", value |-> JStr("sales")],
      [field_id |-> "G2", value |-> JStr("ops")],
      [field_id |-> "G2", value |-> JStr("support")] }

\* payloads of at most MaxAnswers answers for fields of one survey, each for another
\* field, listed in field order
Payloads(sv) ==
    {p \in UNION {[1..n -> {c \in AnswerChoices : FieldSurvey(c.field_id) = sv}] :
                     n \in 0..MaxAnswers} :
        \A i \in 1..(Len(p) - 1) : FieldRank(p[i].field_id) < FieldRank(p[i + 1].field_id)}

\* the submit-section requests clients send.  A request that fails before its
\* payload is read (no token, a section of another survey) carries the empty payload.
SubmitInputs ==
    UNION {{[token |-> t, section_id |-> sid, answers |-> p] :
               t \in ClientTokens \ {<<>>}, p \in Payloads(SectionById(sid).survey)} :
           sid \in {"S1", "S2", "T1"}}
    \cup {[token |-> t, section_id |-> "S0", answers |-> <<>>] : t \in ClientTokens}
    \cup {[token |-> <<>>, section_id |-> "S1", answers |-> <<>>]}

\* the survey ids clients put into the start URL: the stored surveys and an unknown id
StartInputs == SurveyIds \cup {"unknown"}

NoReq == [op |-> "none"]
NoResp == [http |-> NULL]
NoRow == [session_token |-> NULL]

NoPre == [responses |-> <<>>, fieldAnswers |-> <<>>]

IdleWorker ==
    [pc |-> "idle", req |-> NoReq, resp |-> NoResp, response |-> NoRow, next |-> NULL,
     pre |-> NoPre]

Detail(http) == [http |-> http, errors |-> EmptyDict, body |-> [kind |-> "detail"]]

\* a 400 answer that replaces the error map by one general entry
ErrorMap_OneEntry(errors) ==
    [http |-> "400", errors |-> DictPut(EmptyDict, "detail", "Validation failed."),
     body |-> [kind |-> "errors"]]

\* the 400 answer {'status': 'error', 'errors': errors}
ErrorMap(errors) == [http |-> "400", errors |-> errors, body |-> [kind |-> "errors"]]

\* a lookup by session token alone
FindResponse_AnyStatus(resps, token, statuses) ==
    {i \in DOMAIN resps : token = <<resps[i].session_token>>}

\* the SurveyResponse rows with this session token whose status is in `statuses`
\* (get_object_or_404 answers 404 when there is none)
FindResponse(resps, token, statuses) ==
    {i \in DOMAIN resps : token = <<resps[i].session_token>> /\ resps[i].status \in statuses}

\* Model.save() of a loaded SurveyResponse: every column of the row is written
SaveResponse(resps, obj) ==
    [i \in DOMAIN resps |-> IF resps[i].session_token = obj.session_token THEN obj ELSE resps[i]]

Failure(resp) == [ok |-> FALSE, resp |-> resp, response |-> NoRow]

ViewChecked(validation_errors, response) ==
    IF DOMAIN validation_errors # {} THEN Failure(ErrorMap(validation_errors))
    ELSE [ok |-> TRUE, resp |-> NoResp, response |-> response]

ServiceChecked(service, req, response) ==
    IF ~service.is_valid THEN Failure(ErrorMap(service.errors))
    ELSE ViewChecked(ViewValidationErrors(req.section_id, req.answers), response)

\* a submit_section that takes the section by id alone, whatever its survey
SubmitLoaded_AnySection(rows, req, response) ==
    IF ~\E s \in Sections : s.id = req.section_id
        THEN Failure(Detail("404"))
    ELSE ServiceChecked(validate_submission(rows, req.section_id, req.answers, response.survey,
                                            response.session_token),
                        req, response)

\* submit_section once the response row is loaded: the section lookup and the checks
SubmitLoaded(rows, req, response) ==
    IF ~\E s \in Sections : s.id = req.section_id /\ s.survey = response.survey
        THEN Failure(Detail("404"))
    ELSE ServiceChecked(validate_submission(rows, req.section_id, req.answers, response.survey,
                                            response.session_token),
                        req, response)

\* what submit_section answers before it writes anything: the failure response,
\* or ok with the loaded response row
SubmitOutcome(resps, rows, req) ==
    IF req.token = <<>> THEN Failure(Detail("400"))
    ELSE IF FindResponse(resps, req.token, {"in_progress"}) = {} THEN Failure(Detail("404"))
    ELSE SubmitLoaded(rows, req, resps[req.token[1]])

\* the 200 answer of submit_section, computed from the rows after its writes
SubmitSuccess(rows, response) ==
    [http |-> "200", errors |-> EmptyDict,
     body |-> [kind |-> "progress",
               is_complete |-> is_survey_complete(rows, response.survey, response.session_token),
               progress |-> get_survey_progress(rows, response.survey, response.session_token)]]

----------------------------------------------------------------------------
(* The handlers, each run as one step *)

Init ==
    /\ responses = <<>>
    /\ fieldAnswers = <<>>
    /\ now = 1
    /\ finished = {}
    /\ wk = [w \in Workers |-> IdleWorker]
    /\ cache = EmptyDict
    /\ userSessions = <<>>
    /\ tokens = {}

\* the handler returns `resp`; no handler of SubmissionViewSet touches the cache or the
\* login sessions
Done(w, req, resp) ==
    /\ wk' = [wk EXCEPT ![w] = [IdleWorker EXCEPT
                                   !.pc = "done", !.req = req, !.resp = resp,
                                   !.pre = [responses |-> responses,
                                            fieldAnswers |-> fieldAnswers]]]
    /\ UNCHANGED <<cache, userSessions, tokens>>

\* a lookup of the survey by id alone
FindSurvey_AnyStatus(survey_pk, statuses) == {s \in Surveys : s.id = survey_pk}

\* the Survey rows with this id whose status is in `statuses`
\* (get_object_or_404 answers 404 when there is none)
FindSurvey(survey_pk, statuses) == {s \in Surveys : s.id = survey_pk /\ s.status \in statuses}

\* start_survey while the table holds fewer than `limit` sessions
StartUnder(w, survey_pk, limit) ==
    LET req == [op |-> "start", survey_pk |-> survey_pk]
        found == FindSurvey(survey_pk, {"published"}) # {}
        session_token == Len(responses) + 1
    IN  /\ wk[w].pc = "idle"
        /\ IF found
               THEN /\ Len(responses) < limit
                    /\ responses' = Append(responses,
                           [survey |-> survey_pk, session_token |-> session_token,
                            status |-> "in_progress", completed_at |-> <<>>,
                            last_section |-> NULL])
                    /\ Done(w, req, [http |-> "201", errors |-> EmptyDict,
                                     body |-> [kind |-> "token", session_token |-> session_token]])
           ELSE /\ Done(w, req, Detail("404"))
                /\ UNCHANGED responses
        /\ UNCHANGED <<fieldAnswers, now, finished>>

\* POST surveys/{survey_pk}/submissions/start/
start_survey(w, survey_pk) == StartUnder(w, survey_pk, MaxResponses)

\* submit_section from "Save answers" on
SubmitWrite(w, req, response, rows) ==
    /\ fieldAnswers' = rows
    /\ responses' = SaveResponse(responses, [response EXCEPT !.last_section = req.section_id])
    /\ Done(w, req, SubmitSuccess(rows, response))

\* a submit_section whose save loop runs before the error map is looked at: the
\* answers without an error are stored although the request is answered 400
SubmitApply_SavesBeforeChecks(w, req, out) ==
    IF out.ok
        THEN SubmitWrite(w, req, out.response,
                         SaveAnswers(fieldAnswers, out.response.session_token, req.answers, 1))
    ELSE /\ Done(w, req, out.resp)
         /\ fieldAnswers' =
                IF DOMAIN out.resp.errors # {}
                    THEN SaveAnswers(fieldAnswers, req.token[1],
                                     SelectSeq(req.answers,
                                               LAMBDA a : a.field_id \notin DOMAIN out.resp.errors),
                                     1)
                ELSE fieldAnswers
         /\ UNCHANGED responses

SubmitApply(w, req, out) ==
    IF out.ok
        THEN SubmitWrite(w, req, out.response,
                         SaveAnswers(fieldAnswers, out.response.session_token, req.answers, 1))
    ELSE Done(w, req, out.resp) /\ UNCHANGED <<responses, fieldAnswers>>

SubmitRequest(token, section_id, answers) ==
    [op |-> "submit", token |-> token, section_id |-> section_id, answers |-> answers]

\* POST submissions/submit-section/
submit_section(w, token, section_id, answers) ==
    /\ wk[w].pc = "idle"
    /\ SubmitApply(w, SubmitRequest(token, section_id, answers),
                   SubmitOutcome(responses, fieldAnswers, SubmitRequest(token, section_id, answers)))
    /\ UNCHANGED <<now, finished>>

CurrentAnswer(result) ==
    [http |-> "200", errors |-> EmptyDict,
     body |-> [kind |-> "current", current_section |-> result.current_section,
               is_complete |-> result.is_complete, progress |-> result.progress]]

\* GET submissions/current-section/
current_section(w, token) ==
    /\ wk[w].pc = "idle"
    /\ IF token = <<>> THEN Done(w, [op |-> "current", token |-> token], Detail("400"))
       ELSE IF FindResponse(responses, token, {"in_progress", "completed"}) = {}
           THEN Done(w, [op |-> "current", token |-> token], Detail("404"))
       ELSE Done(w, [op |-> "current", token |-> token],
                 CurrentAnswer(get_current_section(fieldAnswers, responses[token[1]].survey,
                                                   token[1])))
    /\ UNCHANGED <<responses, fieldAnswers, now, finished>>

\* the section ids clients put into the sections URL: the stored sections and an
\* unknown id
SectionInputs == SectionIds \cup {"unknown"}

SectionAnswer(result) ==
    IF ~result.found THEN Detail("404")
    ELSE [http |-> "200", errors |-> EmptyDict,
          body |-> [kind |-> "section", section |-> result.section,
                    is_editable |-> result.is_editable, progress |-> result.progress]]

\* GET submissions/sections/{section_id}/ (SubmissionViewSet.get_section)
get_section_view(w, token, section_id) ==
    /\ wk[w].pc = "idle"
    /\ IF token = <<>>
           THEN Done(w, [op |-> "section", token |-> token, section_id |-> section_id],
                     Detail("400"))
       ELSE IF FindResponse(responses, token, {"in_progress", "completed"}) = {}
           THEN Done(w, [op |-> "section", token |-> token, section_id |-> section_id],
                     Detail("404"))
       ELSE Done(w, [op |-> "section", token |-> token, section_id |-> section_id],
                 SectionAnswer(get_section(fieldAnswers, section_id,
                                           responses[token[1]].survey, token[1])))
    /\ UNCHANGED <<responses, fieldAnswers, now, finished>>

\* a finish_survey that sets the status and leaves completed_at alone
Completed_NoStamp(response, t) == [response EXCEPT !.status = "completed"]

\* a finish_survey that also resets the resume pointer
Completed_ClearsLastSection(response, t) ==
    [response EXCEPT !.status = "completed", !.completed_at = <<t>>, !.last_section = NULL]

\* finish_survey: response.status = COMPLETED; response.completed_at = timezone.now()
Completed(response, t) == [response EXCEPT !.status = "completed", !.completed_at = <<t>>]

\* POST submissions/finish/
finish_survey(w, token) ==
    /\ wk[w].pc = "idle"
    /\ IF token = <<>>
           THEN /\ Done(w, [op |-> "finish", token |-> token], Detail("400"))
                /\ UNCHANGED <<responses, now, finished>>
       ELSE IF FindResponse(responses, token, {"in_progress"}) = {}
           THEN /\ Done(w, [op |-> "finish", token |-> token], Detail("404"))
                /\ UNCHANGED <<responses, now, finished>>
       ELSE /\ now <= MaxClock
            /\ responses' = SaveResponse(responses, Completed(responses[token[1]], now))
            /\ now' = now + 1
            /\ finished' = finished \cup {token[1]}
            /\ Done(w, [op |-> "finish", token |-> token],
                    [http |-> "200", errors |-> EmptyDict,
                     body |-> [kind |-> "finished", completed_at |-> <<now>>]])
    /\ UNCHANGED fieldAnswers

\* the answer leaves; the worker takes the next request
Reply(w) ==
    /\ wk[w].pc = "done"
    /\ wk' = [wk EXCEPT ![w] = IdleWorker]
    /\ UNCHANGED <<responses, fieldAnswers, now, finished, cache, userSessions, tokens>>

Next ==
    \/ \E survey_pk \in StartInputs : start_survey("w1", survey_pk)
    \/ \E i \in SubmitInputs : submit_section("w1", i.token, i.section_id, i.answers)
    \/ \E token \in ClientTokens : current_section("w1", token)
    \/ \E token \in ClientTokens, section_id \in SectionInputs :
           get_section_view("w1", token, section_id)
    \/ \E token \in ClientTokens : finish_survey("w1", token)
    \/ Reply("w1")

\* requests handled one at a time
Spec == Init /\ [][Next]_vars

----------------------------------------------------------------------------
(* The handlers under concurrent requests: two workers, each handler split at its  *)
(* storage calls.  get_object_or_404 loads a row into the worker; Model.save()     *)
(* writes the loaded object back; update_or_create updates an existing row under   *)
(* its lock (select_for_update) and otherwise creates the row in a second step,    *)
(* under the unique key on (response, field).                                      *)

\* the survey ids of the start requests of the concurrent runs
ConcStartInputs == {"sv1", "sv0"}

\* the submit-section requests of the concurrent runs

ConcSubmitInputs ==
    { [token |-> <<1>>, section_id |-> "S1",
       answers |-> <<[field_id |-> "F1", value |-> JStr("yes")]>>],
      [token |-> <<1>>, section_id |-> "S1",
       answers |-> <<[field_id |-> "F1", value |-> JStr("no")]>>],
      [token |-> <<1>>, section_id |-> "S2",
       answers |-> <<[field_id |-> "F4", value |-> JStr("abc")]>>],
      [token |-> <<1>>, section_id |-> "S2",
       answers |-> <<[field_id |-> "F2", value |-> JStr("abc")],
                     [field_id |-> "F4", value |-> JStr("abc")]>>],
      [token |-> <<1>>, section_id |-> "S2", answers |-> <<>>] }

\* a step of a handler that returns `resp`
Return(w, req, resp) ==
    /\ wk' = [wk EXCEPT ![w] = [IdleWorker EXCEPT !.pc = "done", !.req = req, !.resp = resp]]
    /\ UNCHANGED <<cache, userSessions, tokens>>

\* a step of a handler that goes on to position `pc`
At(w, pc, req, response, next) ==
    /\ wk' = [wk EXCEPT ![w] = [pc |-> pc, req |-> req, resp |-> NoResp,
                                response |-> response, next |-> next, pre |-> NoPre]]
    /\ UNCHANGED <<cache, userSessions, tokens>>

\* submit_section: the header check and response = get_object_or_404(..., IN_PROGRESS)
SubmitLoad(w, token, section_id, answers) ==
    /\ wk[w].pc = "idle"
    /\ IF token = <<>> THEN Return(w, SubmitRequest(token, section_id, answers), Detail("400"))
       ELSE IF FindResponse(responses, token, {"in_progress"}) = {}
           THEN Return(w, SubmitRequest(token, section_id, answers), Detail("404"))
       ELSE At(w, "loaded", SubmitRequest(token, section_id, answers), responses[token[1]], 1)
    /\ UNCHANGED <<responses, fieldAnswers, now, finished>>

SubmitValidated(w, out) ==
    IF out.ok
        THEN At(w, IF wk[w].req.answers = <<>> THEN "saving" ELSE "validated",
                wk[w].req, wk[w].response, 1)
    ELSE Return(w, wk[w].req, out.resp)

\* submit_section: the section lookup, validate_submission and the view's checks
SubmitValidate(w) ==
    /\ wk[w].pc = "loaded"
    /\ SubmitValidated(w, SubmitLoaded(fieldAnswers, wk[w].req, wk[w].response))
    /\ UNCHANGED <<responses, fieldAnswers, now, finished>>

\* the worker's position after the answer `next` of its payload is stored
Upserted(w) ==
    At(w, IF wk[w].next = Len(wk[w].req.answers) THEN "saving" ELSE "validated",
       wk[w].req, wk[w].response, wk[w].next + 1)

\* submit_section: one update_or_create of the "Save answers" loop, up to its create.
\* The get runs with select_for_update, so a row that exists is updated under its lock
SubmitUpsert(w) ==
    /\ wk[w].pc = "validated"
    /\ IF \E i \in DOMAIN fieldAnswers :
              /\ fieldAnswers[i].response = wk[w].response.session_token
              /\ fieldAnswers[i].field = wk[w].req.answers[wk[w].next].field_id
           THEN /\ fieldAnswers' = update_or_create(fieldAnswers, wk[w].response.session_token,
                                                   wk[w].req.answers[wk[w].next].field_id,
                                                   PyStr(wk[w].req.answers[wk[w].next].value))
                /\ Upserted(w)
       ELSE /\ At(w, "creating", wk[w].req, wk[w].response, wk[w].next)
            /\ UNCHANGED fieldAnswers
    /\ UNCHANGED <<responses, now, finished>>

\* submit_section: the create of an update_or_create whose get found no row
SubmitCreate(w) ==
    /\ wk[w].pc = "creating"
    /\ fieldAnswers' = InsertUnique(fieldAnswers, wk[w].response.session_token,
                                    wk[w].req.answers[wk[w].next].field_id,
                                    PyStr(wk[w].req.answers[wk[w].next].value))
    /\ Upserted(w)
    /\ UNCHANGED <<responses, now, finished>>

\* submit_section: response.last_section = section; response.save(); the answer
SubmitSave(w) ==
    /\ wk[w].pc = "saving"
    /\ responses' = SaveResponse(responses,
                        [wk[w].response EXCEPT !.last_section = wk[w].req.section_id])
    /\ Return(w, wk[w].req, SubmitSuccess(fieldAnswers, wk[w].response))
    /\ UNCHANGED <<fieldAnswers, now, finished>>

\* finish_survey: the header check and response = get_object_or_404(..., IN_PROGRESS)
FinishLoad(w, token) ==
    /\ wk[w].pc = "idle"
    /\ IF token = <<>> THEN Return(w, [op |-> "finish", token |-> token], Detail("400"))
       ELSE IF FindResponse(responses, token, {"in_progress"}) = {}
           THEN Return(w, [op |-> "finish", token |-> token], Detail("404"))
       ELSE /\ now + Cardinality({v \in Workers : wk[v].pc = "f_loaded"}) <= MaxClock
            /\ At(w, "f_loaded", [op |-> "finish", token |-> token], responses[token[1]], 1)
    /\ UNCHANGED <<responses, fieldAnswers, now, finished>>

\* finish_survey: status and completed_at set on the loaded object; response.save()
FinishSave(w) ==
    /\ wk[w].pc = "f_loaded"
    /\ responses' = SaveResponse(responses, Completed(wk[w].response, now))
    /\ now' = now + 1
    /\ finished' = finished \cup {wk[w].response.session_token}
    /\ Return(w, wk[w].req, [http |-> "200", errors |-> EmptyDict,
                           body |-> [kind |-> "finished", completed_at |-> <<now>>]])
    /\ UNCHANGED fieldAnswers

NextConc ==
    \E w \in Workers :
        \/ \E survey_pk \in ConcStartInputs : start_survey(w, survey_pk)
        \/ \E i \in ConcSubmitInputs : SubmitLoad(w, i.token, i.section_id, i.answers)
        \/ SubmitValidate(w)
        \/ SubmitUpsert(w)
        \/ SubmitCreate(w)
        \/ SubmitSave(w)
        \/ \E token \in ClientTokens : FinishLoad(w, token)
        \/ FinishSave(w)
        \/ Reply(w)

\* requests handled by two workers at once
SpecConc == Init /\ [][NextConc]_vars

----------------------------------------------------------------------------
(* Sessions side by side: up to MaxSessions sessions of survey sv1, their requests *)
(* handled by two workers at once.  The requests of one session go to one worker  *)
(* (SpecConc covers concurrent requests of one session).                           *)

\* the survey ids of the start requests: published, draft, closed and unknown
PairStartInputs == {"sv1", "sv0", "sv4", "unknown"}

\* the session tokens whose requests worker w handles
PairTokens(w) == {<<t>> : t \in {u \in 1..MaxSessions : (u % 2 = 1) <=> (w = "w1")}}

\* the submit-section requests of each session
PairSubmitInputs(w) ==
    {[token |-> t, section_id |-> i.section_id, answers |-> i.answers] :
        t \in PairTokens(w),
        i \in { [section_id |-> "S1",
                 answers |-> <<[field_id |-> "F1", value |-> JStr("no")]>>],
                [section_id |-> "S1",
                 answers |-> <<[field_id |-> "F1", value |-> JStr("yes")]>>],
                [section_id |-> "S2",
                 answers |-> <<[field_id |-> "F4", value |-> JStr("abc")]>>] }}

NextPair ==
    \E w \in Workers :
        \/ \E survey_pk \in PairStartInputs : StartUnder(w, survey_pk, MaxSessions)
        \/ \E i \in PairSubmitInputs(w) : SubmitLoad(w, i.token, i.section_id, i.answers)
        \/ SubmitValidate(w)
        \/ SubmitUpsert(w)
        \/ SubmitCreate(w)
        \/ SubmitSave(w)
        \/ \E token \in PairTokens(w) : FinishLoad(w, token)
        \/ FinishSave(w)
        \/ Reply(w)

SpecPair == Init /\ [][NextPair]_vars

----------------------------------------------------------------------------
(* ConditionalLogicService called on its own: evaluate_rule and the two visibility *)
(* folds, applied to rules and answers of every shape the rule table can hold.     *)

\* ConditionalRule.Operator
Operators ==
    {"equals", "not_equals", "greater_than", "less_than", "contains", "in", "is_empty",
     "is_not_empty"}

\* ConditionalRule.value: absent, or a text
RuleValues == {NULL, "", "no", "18", "abc", "yes, no"}

\* one rule per operator and value, with F1 as its source field
EvaluateRules ==
    {[target_type |-> "section", target_id |-> "S2", source_field |-> "F1",
      operator |-> o, value |-> v, action |-> "hide"] : o \in Operators, v \in RuleValues}

\* answers_dict: F1 unanswered, or answered with a text
AnswerDicts(values) == {EmptyDict} \cup {DictPut(EmptyDict, "F1", v) : v \in values}

\* the rules of a list handed to a fold: conditions on F1 that an answer can meet
\* together and a comparison with a malformed operand, either action, any of `targets`
FoldRules(tt, targets) ==
    {[target_type |-> tt, target_id |-> t, source_field |-> "F1",
      operator |-> c.operator, value |-> c.value, action |-> a] :
        t \in targets, a \in {"hide", "show"},
        c \in {[operator |-> "equals", value |-> "no"],
               [operator |-> "is_not_empty", value |-> NULL],
               [operator |-> "is_empty", value |-> NULL],
               [operator |-> "greater_than", value |-> "abc"]}}

\* the rule lists the storage may return, in every order
RuleLists(pool) == UNION {[1..n -> pool] : n \in 0..MaxRules}

\* evaluate_rule on a rule and an answers dict
CallEvaluateRule(w, rule, answers_dict) ==
    /\ wk[w].pc = "idle"
    /\ Return(w, [op |-> "evaluate_rule", rule |-> rule, answers |-> answers_dict],
              [http |-> NULL, result |-> evaluate_rule(rule, answers_dict)])
    /\ UNCHANGED <<responses, fieldAnswers, now, finished>>

\* get_visible_sections of survey sv, after its two queries returned
CallVisibleSections(w, rules, sv, answers_dict) ==
    /\ wk[w].pc = "idle"
    /\ Return(w, [op |-> "visible_sections", rules |-> rules, survey |-> sv,
                  answers |-> answers_dict],
              [http |-> NULL, result |-> VisibleSectionsWith(rules, sv, answers_dict)])
    /\ UNCHANGED <<responses, fieldAnswers, now, finished>>

\* get_visible_fields of section sid, after its queries returned
CallVisibleFields(w, rules, sid, answers_dict) ==
    /\ wk[w].pc = "idle"
    /\ Return(w, [op |-> "visible_fields", rules |-> rules, section |-> sid,
                  answers |-> answers_dict],
              [http |-> NULL, result |-> VisibleFieldsWith(rules, sid, answers_dict)])
    /\ UNCHANGED <<responses, fieldAnswers, now, finished>>

\* get_current_section for a response of survey sv, over the stored rows
CallCurrentSection(w, rows, sv, rid) ==
    /\ wk[w].pc = "idle"
    /\ Return(w, [op |-> "current_section", rows |-> rows, survey |-> sv, rid |-> rid],
              [http |-> NULL, result |-> get_current_section(rows, sv, rid)])
    /\ UNCHANGED <<responses, fieldAnswers, now, finished>>

\* FieldAnswer tables holding answers of response 1 to fields of sv1, as saved rows
StoredTables == {SaveAnswers(<<>>, 1, p, 1) : p \in Payloads("sv1")}

\* get_all_answers_for_response over the stored rows
CallAllAnswers(w, rows, rid) ==
    /\ wk[w].pc = "idle"
    /\ Return(w, [op |-> "all_answers", rows |-> rows, rid |-> rid],
              [http |-> NULL, result |-> get_all_answers_for_response(rows, rid)])
    /\ UNCHANGED <<responses, fieldAnswers, now, finished>>

\* get_visible_sections of survey sv over the stored rows, after the rule query
\* returned
CallStoredVisibleSections(w, rules, rows, sv, rid) ==
    /\ wk[w].pc = "idle"
    /\ Return(w, [op |-> "stored_visible_sections", rules |-> rules, rows |-> rows,
                  survey |-> sv, rid |-> rid],
              [http |-> NULL,
               result |-> VisibleSectionsWith(rules, sv,
                                              get_all_answers_for_response(rows, rid))])
    /\ UNCHANGED <<responses, fieldAnswers, now, finished>>

\* get_field_options of field fid over the stored rows, after the dependency query
\* returned
CallFieldOptions(w, deps, rows, fid, rid) ==
    /\ wk[w].pc = "idle"
    /\ Return(w, [op |-> "field_options", deps |-> deps, rows |-> rows, field |-> fid,
                  rid |-> rid],
              [http |-> NULL, result |-> FieldOptionsWith(deps, rows, fid, rid)])
    /\ UNCHANGED <<responses, fieldAnswers, now, finished>>

\* the table with the encrypted values overwritten by bytes that do not decrypt
DamageRows(rows) ==
    [i \in DOMAIN rows |->
        IF rows[i].encrypted_value # <<>>
            THEN [rows[i] EXCEPT !.encrypted_value = <<Damaged>>]
        ELSE rows[i]]

\* the tables the accessor reads: as saved, and with damaged encrypted values
AccessorTables == StoredTables \cup {DamageRows(rows) : rows \in StoredTables}

\* rule lists on the sensitive field F2, with target S2
SensitiveRuleLists ==
    RuleLists({[target_type |-> "section", target_id |-> "S2", source_field |-> "F2",
                operator |-> c.operator, value |-> c.value, action |-> a] :
                  a \in {"hide", "show"},
                  c \in {[operator |-> "equals", value |-> "abc"],
                         [operator |-> "is_not_empty", value |-> NULL],
                         [operator |-> "is_empty", value |-> NULL]}})

\* dependency lists of G2 on the sensitive field F2
SensitiveDependencyLists ==
    RuleLists({[dependent_field |-> "G2", source_field |-> "F2", source_value |-> v,
                dependent_options |-> <<o>>] :
                  v \in {"abc", ""},
                  o \in {[label |-> "Sales", value |-> "sales"],
                         [label |-> "Operations", value |-> "ops"]}})

\* the rule lists and answers the calls are made with
SectionRuleLists == RuleLists(FoldRules("section", {"S1", "S2", "T1"}))
FieldRuleLists == RuleLists(FoldRules("field", {"F1", "F2", "F4"}))
EvaluateAnswers == AnswerDicts({"", "no", "42", "abc", "yes"})
FoldAnswers == AnswerDicts({"", "no", "yes", "42"})

NextLogic ==
    \/ /\ wk["w1"].pc = "idle"
       /\ \E rule \in EvaluateRules, d \in EvaluateAnswers : CallEvaluateRule("w1", rule, d)
    \/ /\ wk["w1"].pc = "idle"
       /\ \E rules \in SectionRuleLists, d \in FoldAnswers :
              CallVisibleSections("w1", rules, "sv1", d)
    \/ /\ wk["w1"].pc = "idle"
       /\ \E rules \in FieldRuleLists, sid \in {"S1", "S2"}, d \in FoldAnswers :
              CallVisibleFields("w1", rules, sid, d)
    \/ /\ wk["w1"].pc = "idle"
       /\ \E rows \in StoredTables : CallCurrentSection("w1", rows, "sv1", 1)
    \/ /\ wk["w1"].pc = "idle"
       /\ \E rows \in AccessorTables : CallAllAnswers("w1", rows, 1)
    \/ /\ wk["w1"].pc = "idle"
       /\ \E rules \in SensitiveRuleLists, rows \in AccessorTables :
              CallStoredVisibleSections("w1", rules, rows, "sv1", 1)
    \/ /\ wk["w1"].pc = "idle"
       /\ \E deps \in SensitiveDependencyLists, rows \in AccessorTables :
              CallFieldOptions("w1", deps, rows, "G2", 1)
    \/ Reply("w1")

SpecLogic == Init /\ [][NextLogic]_vars

----------------------------------------------------------------------------
(* AnalyticsService over the SurveyResponse table and the cache.  The result dict *)
(* is modelled with its survey id, its three counts and its completion rate; the  *)
(* title and the two time values are left out.                                    *)

\* cache_key = f"survey_analytics_{survey_id}"
CacheKey(survey_id) == "survey_analytics_" \o survey_id

\* Count('id', filter=Q(status=...)) over the responses of the survey
CountResponses(resps, survey_id, statuses) ==
    Cardinality({i \in DOMAIN resps :
                    resps[i].survey = survey_id /\ resps[i].status \in statuses})

\* the result dict computed from the stored responses; completion_rate is
\* round(completed / total * 100, 2) in hundredths of a percent
ComputeAnalytics(resps, survey_id) ==
    LET total == CountResponses(resps, survey_id, {"in_progress", "completed"})
        completed == CountResponses(resps, survey_id, {"completed"})
    IN  [survey_id |-> survey_id,
         total_responses |-> total,
         completed_responses |-> completed,
         in_progress_responses |-> CountResponses(resps, survey_id, {"in_progress"}),
         completion_rate |-> Percentage(completed, total)]

\* a lookup that serves the cached entry also when use_cache is False
CacheLookup_IgnoresBypass(entries, key, use_cache) ==
    IF key \in DOMAIN entries THEN <<entries[key]>> ELSE <<>>

\* "Try to get from cache": <<cached>> when use_cache and the key is live, else <<>>
CacheLookup(entries, key, use_cache) ==
    IF use_cache /\ key \in DOMAIN entries THEN <<entries[key]>> ELSE <<>>

\* cache.delete(key), and what the end of an entry's lifetime does
CacheDelete(entries, key) == [k \in DOMAIN entries \ {key} |-> entries[k]]

\* the service answers `result`: <<>> for None, else <<dict>>
Answer(w, req, result) ==
    /\ wk' = [wk EXCEPT ![w] = [IdleWorker EXCEPT !.pc = "done", !.req = req,
                                                 !.resp = [http |-> NULL, result |-> result]]]
    /\ UNCHANGED <<userSessions, tokens>>

\* what get_survey_analytics does when the lookup gave `cached`
AnalyticsAfterLookup(w, req, cached) ==
    IF cached # <<>>
        THEN Answer(w, req, cached) /\ UNCHANGED cache
    ELSE IF ~\E sv \in Surveys : sv.id = req.survey_id
        THEN Answer(w, req, <<>>) /\ UNCHANGED cache
    ELSE /\ cache' = DictPut(cache, CacheKey(req.survey_id),
                             ComputeAnalytics(responses, req.survey_id))
         /\ Answer(w, req, <<ComputeAnalytics(responses, req.survey_id)>>)

\* AnalyticsService.get_survey_analytics
get_survey_analytics(w, survey_id, use_cache) ==
    /\ wk[w].pc = "idle"
    /\ AnalyticsAfterLookup(w, [op |-> "analytics", survey_id |-> survey_id,
                                use_cache |-> use_cache],
                            CacheLookup(cache, CacheKey(survey_id), use_cache))
    /\ UNCHANGED <<responses, fieldAnswers, now, finished>>

\* AnalyticsService.invalidate_survey_cache
invalidate_survey_cache(w, survey_id) ==
    /\ wk[w].pc = "idle"
    /\ cache' = CacheDelete(cache, CacheKey(survey_id))
    /\ Answer(w, [op |-> "invalidate", survey_id |-> survey_id], <<>>)
    /\ UNCHANGED <<responses, fieldAnswers, now, finished>>

\* CACHE_TTL seconds after it was set, an entry is gone
CacheExpire(survey_id) ==
    /\ CacheKey(survey_id) \in DOMAIN cache
    /\ cache' = CacheDelete(cache, CacheKey(survey_id))
    /\ UNCHANGED <<responses, fieldAnswers, now, finished, wk, userSessions, tokens>>

\* the tokens of the sessions that respondents may finish
AnalyticsTokens == {<<t>> : t \in 1..MaxSessions}

NextAnalytics ==
    \/ \E survey_pk \in StartInputs : StartUnder("w1", survey_pk, MaxSessions)
    \/ \E token \in AnalyticsTokens : finish_survey("w1", token)
    \/ \E survey_id \in StartInputs, use_cache \in BOOLEAN :
           get_survey_analytics("w1", survey_id, use_cache)
    \/ \E survey_id \in StartInputs : invalidate_survey_cache("w1", survey_id)
    \/ \E survey_id \in StartInputs : CacheExpire(survey_id)
    \/ Reply("w1")

SpecAnalytics == Init /\ [][NextAnalytics]_vars

----------------------------------------------------------------------------
(* Login sessions (users app).  A JWT is modelled by the claims the code reads:  *)
(* its type, its user and its session_id; a token that was not signed by the     *)
(* server is Forged.  Token lifetimes are not modelled.                          *)

Users == {"u1", "u2"}

Forged == [token_type |-> "forged", user |-> NULL, session_id |-> 0]

\* UserSession.objects.create(user=user, ...): is_active defaults to True,
\* logged_out_at to null, last_activity is auto_now
NewSession(user, t) ==
    [user |-> user, is_active |-> TRUE, last_activity |-> t, logged_out_at |-> <<>>]

\* get_tokens_for_user_with_session: a refresh and an access token with the session id
get_tokens_for_user_with_session(user, session_id) ==
    {[token_type |-> type, user |-> user, session_id |-> session_id] :
        type \in {"refresh", "access"}}

\* refresh.access_token: the claims of the refresh token under the access type
access_token(refresh) == [refresh EXCEPT !.token_type = "access"]

\* a lookup that accepts every session that exists
SessionState_ExistsOnly(sessions, session_id) ==
    IF session_id \notin DOMAIN sessions THEN "Session not found" ELSE "active"

\* UserSession.objects.get(id=session_id) and the test of is_active
SessionState(sessions, session_id) ==
    IF session_id \notin DOMAIN sessions THEN "Session not found"
    ELSE IF ~sessions[session_id].is_active THEN "Session has been logged out"
    ELSE "active"

\* SessionJWTAuthentication.get_validated_token: "active", or the detail of InvalidToken
get_validated_token(sessions, raw_token) ==
    IF raw_token.token_type # "access" THEN "Token is invalid or expired"
    ELSE SessionState(sessions, raw_token.session_id)

\* session.save(update_fields=['last_activity'])
Touch(sessions, session_id, t) == [sessions EXCEPT ![session_id].last_activity = t]

\* LogoutView: is_active and logged_out_at set; session.save() also stamps last_activity
LoggedOut(session, t) ==
    [session EXCEPT !.is_active = FALSE, !.logged_out_at = <<t>>, !.last_activity = t]

AuthResp(http, detail) == [http |-> http, detail |-> detail]

\* a view of the users app answers `resp`
AuthDone(w, req, resp) ==
    /\ wk' = [wk EXCEPT ![w] = [IdleWorker EXCEPT !.pc = "done", !.req = req, !.resp = resp]]
    /\ UNCHANGED <<responses, fieldAnswers, finished, cache>>

\* LoginView.post; an email outside Users fails LoginSerializer.validate
LoginView_post(w, email) ==
    /\ wk[w].pc = "idle"
    /\ IF email \notin Users
           THEN /\ AuthDone(w, [op |-> "login", raw |-> Forged],
                            AuthResp("400", "Invalid email or password"))
                /\ UNCHANGED <<userSessions, tokens, now>>
       ELSE /\ Len(userSessions) < MaxLogins
            /\ userSessions' = Append(userSessions, NewSession(email, now))
            /\ tokens' = tokens \cup
                   get_tokens_for_user_with_session(email, Len(userSessions) + 1)
            /\ AuthDone(w, [op |-> "login", raw |-> Forged], AuthResp("200", email))
            /\ UNCHANGED now

\* UserProfileView GET behind SessionJWTAuthentication and IsAuthenticated
UserProfileView_get(w, raw_token) ==
    /\ wk[w].pc = "idle"
    /\ IF get_validated_token(userSessions, raw_token) # "active"
           THEN /\ AuthDone(w, [op |-> "profile", raw |-> raw_token],
                            AuthResp("401", get_validated_token(userSessions, raw_token)))
                /\ UNCHANGED <<userSessions, tokens, now>>
       ELSE /\ userSessions' = Touch(userSessions, raw_token.session_id, now)
            /\ AuthDone(w, [op |-> "profile", raw |-> raw_token],
                        AuthResp("200", raw_token.user))
            /\ UNCHANGED <<tokens, now>>

\* LogoutView.post behind SessionJWTAuthentication and IsAuthenticated
LogoutView_post(w, raw_token) ==
    /\ wk[w].pc = "idle"
    /\ IF get_validated_token(userSessions, raw_token) # "active"
           THEN /\ AuthDone(w, [op |-> "logout", raw |-> raw_token],
                            AuthResp("401", get_validated_token(userSessions, raw_token)))
                /\ UNCHANGED <<userSessions, tokens, now>>
       ELSE /\ now <= MaxClock
            /\ userSessions' = [userSessions EXCEPT ![raw_token.session_id] = LoggedOut(@, now)]
            /\ now' = now + 1
            /\ AuthDone(w, [op |-> "logout", raw |-> raw_token],
                        AuthResp("200", "Logged out successfully"))
            /\ UNCHANGED tokens

\* RefreshTokenView.post (AllowAny): RefreshToken(raw) raises TokenError for anything
\* but a refresh token of the server
RefreshTokenView_post(w, raw_token) ==
    /\ wk[w].pc = "idle"
    /\ IF raw_token.token_type # "refresh"
           THEN /\ AuthDone(w, [op |-> "refresh", raw |-> raw_token],
                            AuthResp("401", "Token is invalid or expired"))
                /\ UNCHANGED <<userSessions, tokens, now>>
       ELSE IF SessionState(userSessions, raw_token.session_id) # "active"
           THEN /\ AuthDone(w, [op |-> "refresh", raw |-> raw_token],
                            AuthResp("401", SessionState(userSessions, raw_token.session_id)))
                /\ UNCHANGED <<userSessions, tokens, now>>
       ELSE /\ tokens' = tokens \cup {access_token(raw_token)}
            /\ AuthDone(w, [op |-> "refresh", raw |-> raw_token],
                        AuthResp("200", "access"))
            /\ UNCHANGED <<userSessions, now>>

\* what a client can send as a token
PresentedTokens == tokens \cup {Forged}

NextAuth ==
    \/ \E email \in Users \cup {"nobody"} : LoginView_post("w1", email)
    \/ \E raw_token \in PresentedTokens : UserProfileView_get("w1", raw_token)
    \/ \E raw_token \in PresentedTokens : LogoutView_post("w1", raw_token)
    \/ \E raw_token \in PresentedTokens : RefreshTokenView_post("w1", raw_token)
    \/ Reply("w1")

SpecAuth == Init /\ [][NextAuth]_vars

----------------------------------------------------------------------------
(* Properties.  Under Spec worker w1 handles every request in one step and, once *)
(* it has answered, holds the request, the answer and the tables as the handler  *)
(* found them (pre), until the answer leaves.                                    *)

Answered(op) == wk["w1"].pc = "done" /\ wk["w1"].req.op = op

\* submit_section got as far as validate_submission, for session rid: the token names
\* an in-progress response and the section is one of its survey
ReachedValidation(rid) ==
    /\ Answered("submit")
    /\ wk["w1"].req.token = <<rid>>
    /\ rid \in DOMAIN wk["w1"].pre.responses
    /\ wk["w1"].pre.responses[rid].status = "in_progress"
    /\ SectionById(wk["w1"].req.section_id).survey = wk["w1"].pre.responses[rid].survey

\* the section of the request was in VisibleSections when the handler started
SectionWasVisible(rid) ==
    wk["w1"].req.section_id \in
        get_visible_sections(wk["w1"].pre.fieldAnswers, wk["w1"].pre.responses[rid].survey, rid)

\* the fields of the request's section that were visible when the handler started
FieldsWereVisible(rid) == get_visible_fields(wk["w1"].pre.fieldAnswers, wk["w1"].req.section_id, rid)

\* the payload holds no value for the field: no answer, or only null or ""
NoValue(answers, fid) == \A k \in DOMAIN answers : answers[k].field_id = fid => IsBlank(answers[k].value)

ValidationFailed == Answered("submit") /\ wk["w1"].resp.http = "400" /\ DOMAIN wk["w1"].resp.errors # {}

\* C1: with requests handled one at a time, the status of a response is always
\* in_progress or completed, a completed response never becomes in_progress again,
\* and completed_at is set exactly when the status is completed.
C1_StatusOnlyAdvances ==
    [][ /\ \A i \in DOMAIN responses :
              /\ i \in DOMAIN responses'
              /\ responses[i].status = "completed" => responses'[i].status = "completed"
        /\ \A i \in DOMAIN responses' :
              /\ responses'[i].status \in {"in_progress", "completed"}
              /\ (responses'[i].completed_at # <<>>) <=> (responses'[i].status = "completed")
      ]_vars

\* Finish has just completed a response that was in progress and holds answers
C1_Witness ==
    /\ Answered("finish") /\ wk["w1"].resp.http = "200"
    /\ wk["w1"].pre.responses[1].status = "in_progress"
    /\ wk["w1"].pre.responses[1].completed_at = <<>>
    /\ responses[1].status = "completed"
    /\ responses[1].completed_at # <<>>
    /\ AnswersOf(fieldAnswers, 1) # <<>>

\* C2: under any interleaving of SubmitSection and Finish on one session, a stored
\* status of completed is never written back to in_progress and a stored completed_at
\* is never cleared.
C2_CompletedIsNeverWrittenBack ==
    [][ \A i \in DOMAIN responses :
            responses[i].status = "completed"
                => /\ responses'[i].status = "completed"
                   /\ responses'[i].completed_at = responses[i].completed_at ]_vars

\* C3: once Finish has succeeded for a session token, every SubmitSection that
\* starts afterwards with that token is rejected at once, creates or changes no
\* FieldAnswer and leaves the response row (last_section) alone.
C3_SubmitAfterFinishRejected ==
    [][ \A w \in Workers : \A t \in finished :
            (wk[w].pc = "idle" /\ wk'[w].pc # "idle"
                /\ wk'[w].req.op = "submit" /\ wk'[w].req.token = <<t>>)
                => /\ wk'[w].pc = "done"
                   /\ wk'[w].resp.http \in {"400", "404"}
                   /\ fieldAnswers' = fieldAnswers
                   /\ responses' = responses ]_vars

\* C4: under any interleaving, no FieldAnswer of a response is created or changed
\* while the stored status of the response is completed.
C4_NoAnswerWrittenOnceCompleted ==
    [][ \A i \in DOMAIN responses :
            responses[i].status = "completed"
                => AnswersOf(fieldAnswers', i) = AnswersOf(fieldAnswers, i) ]_vars

\* C5: a SubmitSection answered with an error map has created and updated no
\* FieldAnswer and has left every response row, last_section included, as it was.
C5_FailedValidationStoresNothing ==
    ValidationFailed
        => /\ fieldAnswers = wk["w1"].pre.fieldAnswers
           /\ responses = wk["w1"].pre.responses

\* a payload failed validation although one of its answers had no error, and that
\* answer is not in the table
C5_Witness ==
    /\ ValidationFailed
    /\ ReachedValidation(1)
    /\ responses[1].last_section # wk["w1"].req.section_id
    /\ \E a \in Range(wk["w1"].req.answers) :
          /\ a.field_id \notin DOMAIN wk["w1"].resp.errors
          /\ FieldById(a.field_id).section = wk["w1"].req.section_id
          /\ ~IsBlank(a.value)
          /\ a.field_id \notin DOMAIN get_all_answers_for_response(fieldAnswers, 1)

\* C6: a SubmitSection for a section that is not in VisibleSections(response) is
\* answered 400 with an error map of exactly one entry, keyed "section"; no field of
\* the payload is looked at and nothing is stored.
C6_HiddenSectionRejected ==
    \A rid \in DOMAIN wk["w1"].pre.responses :
        (ReachedValidation(rid) /\ ~SectionWasVisible(rid))
            => /\ wk["w1"].resp.http = "400"
               /\ DOMAIN wk["w1"].resp.errors = {"section"}
               /\ wk["w1"].resp.errors["section"]
                     = MsgSectionNotAvailable(SectionById(wk["w1"].req.section_id).title)
               /\ fieldAnswers = wk["w1"].pre.fieldAnswers
               /\ responses = wk["w1"].pre.responses

\* section S2 is hidden by the stored F1 = "no"; a payload for S2 that leaves out the
\* required F4 and holds a non-number for F3 got the section error alone
C6_Witness ==
    /\ ReachedValidation(1) /\ ~SectionWasVisible(1)
    /\ wk["w1"].req.section_id = "S2"
    /\ \E k \in DOMAIN wk["w1"].req.answers :
          wk["w1"].req.answers[k] = [field_id |-> "F3", value |-> JStr("abc")]
    /\ \A k \in DOMAIN wk["w1"].req.answers : wk["w1"].req.answers[k].field_id # "F4"
    /\ DOMAIN wk["w1"].resp.errors = {"section"}

\* C7: "This field is required." is recorded for a field of the submitted section
\* only when the field is visible, required and without a submitted value; a required
\* field that is hidden never gets it.
C7_RequiredErrorOnlyForVisibleFields ==
    \A rid \in DOMAIN wk["w1"].pre.responses : \A f \in Fields :
        (/\ ReachedValidation(rid) /\ SectionWasVisible(rid)
         /\ f.section = wk["w1"].req.section_id
         /\ f.id \in DOMAIN wk["w1"].resp.errors
         /\ wk["w1"].resp.errors[f.id] = MsgRequired)
            => /\ f.id \in FieldsWereVisible(rid)
               /\ f.is_required
               /\ NoValue(wk["w1"].req.answers, f.id)

\* the field breaks one of the checks of the validator: answered although hidden or
\* of another section, visible and required without a value, or of the wrong type
Violates(rid, fid) ==
    \/ /\ \E k \in DOMAIN wk["w1"].req.answers : wk["w1"].req.answers[k].field_id = fid
       /\ fid \notin FieldsWereVisible(rid)
    \/ /\ fid \in FieldsWereVisible(rid)
       /\ FieldById(fid).is_required
       /\ NoValue(wk["w1"].req.answers, fid)
    \/ \E k \in DOMAIN wk["w1"].req.answers :
          /\ wk["w1"].req.answers[k].field_id = fid
          /\ ~validate_answer(FieldById(fid), wk["w1"].req.answers[k].value).is_valid

\* C8: when the submitted section is visible, the error map holds an entry for
\* every field that breaks a check, not only for the first one found.
C8_EveryViolationReported ==
    \A rid \in DOMAIN wk["w1"].pre.responses : \A fid \in FieldIds :
        (ReachedValidation(rid) /\ SectionWasVisible(rid) /\ Violates(rid, fid))
            => fid \in DOMAIN wk["w1"].resp.errors

\* the stored answers of session 1 are exactly F1 = v
OnlyF1(rows, v) ==
    /\ DOMAIN get_all_answers_for_response(rows, 1) = {"F1"}
    /\ get_all_answers_for_response(rows, 1)["F1"] = v

SubmitsF1(v) ==
    /\ Answered("submit") /\ wk["w1"].resp.http = "200"
    /\ wk["w1"].req.token = <<1>>
    /\ wk["w1"].req.section_id = "S1"
    /\ wk["w1"].req.answers = <<[field_id |-> "F1", value |-> JStr(v)]>>

\* C9: sections S1 (radio F1, options yes and no) and S2, S2 hidden when F1 equals
\* "no".  With F1 = "no" as the only stored answer CurrentSection returns no section
\* and is_complete = true; with F1 = "yes" it returns S2 and is_complete = false; and
\* resubmitting F1 = "yes" over a stored "no" replaces the answer and is answered
\* is_complete = false.
C9_CompletionFollowsStoredAnswers ==
    /\ (Answered("current") /\ wk["w1"].resp.http = "200" /\ wk["w1"].req.token = <<1>>)
          => /\ OnlyF1(fieldAnswers, "no")
                  => /\ wk["w1"].resp.body.current_section = NULL
                     /\ wk["w1"].resp.body.is_complete
             /\ OnlyF1(fieldAnswers, "yes")
                  => /\ wk["w1"].resp.body.current_section = "S2"
                     /\ ~wk["w1"].resp.body.is_complete
    /\ (SubmitsF1("no") /\ wk["w1"].pre.fieldAnswers = <<>>)
          => OnlyF1(fieldAnswers, "no") /\ wk["w1"].resp.body.is_complete
    /\ (SubmitsF1("yes") /\ OnlyF1(wk["w1"].pre.fieldAnswers, "no"))
          => OnlyF1(fieldAnswers, "yes") /\ ~wk["w1"].resp.body.is_complete

\* F1 = "yes" has just been submitted over a stored F1 = "no"
C9_Witness ==
    /\ SubmitsF1("yes")
    /\ OnlyF1(wk["w1"].pre.fieldAnswers, "no")
    /\ OnlyF1(fieldAnswers, "yes")
    /\ ~wk["w1"].resp.body.is_complete

\* C10: the table never holds two FieldAnswer rows for one (response, field), and a
\* successful SubmitSection adds one row for each field of its payload that had no
\* row and none for a field that had one.
C10_OneAnswerPerField ==
    /\ \A i, j \in DOMAIN fieldAnswers :
          (fieldAnswers[i].response = fieldAnswers[j].response
              /\ fieldAnswers[i].field = fieldAnswers[j].field) => i = j
    /\ (Answered("submit") /\ wk["w1"].resp.http = "200")
          => Len(fieldAnswers) = Len(wk["w1"].pre.fieldAnswers)
                + Cardinality({a.field_id : a \in Range(wk["w1"].req.answers)}
                      \ {r.field : r \in Range(AnswersOf(wk["w1"].pre.fieldAnswers,
                                                          wk["w1"].req.token[1]))})

\* a resubmission: an accepted payload whose field had a row, which now holds
\* another value, with no row added
C10_Witness ==
    /\ Answered("submit") /\ wk["w1"].resp.http = "200"
    /\ wk["w1"].req.answers # <<>>
    /\ Len(fieldAnswers) = Len(wk["w1"].pre.fieldAnswers)
    /\ \E i \in DOMAIN fieldAnswers :
          /\ fieldAnswers[i].field = wk["w1"].req.answers[1].field_id
          /\ fieldAnswers[i].field = wk["w1"].pre.fieldAnswers[i].field
          /\ fieldAnswers[i].value # wk["w1"].pre.fieldAnswers[i].value

\* the payload's value for the field (the last answer that names it)
Submitted(answers, fid) ==
    answers[CHOOSE k \in DOMAIN answers :
                /\ answers[k].field_id = fid
                /\ \A j \in DOMAIN answers : answers[j].field_id = fid => j <= k].value

SubmitAccepted == Answered("submit") /\ wk["w1"].resp.http = "200"

\* C11: after an accepted SubmitSection, get_all_answers_for_response returns for
\* every field of the payload the string form of the value just submitted, for
\* sensitive and other fields alike, the empty string included.
C11_AccessorReturnsSubmittedValue ==
    SubmitAccepted
        => \A a \in Range(wk["w1"].req.answers) :
              /\ a.field_id \in DOMAIN get_all_answers_for_response(fieldAnswers, wk["w1"].req.token[1])
              /\ get_all_answers_for_response(fieldAnswers, wk["w1"].req.token[1])[a.field_id]
                    = PyStr(Submitted(wk["w1"].req.answers, a.field_id))

\* a row is populated in a column when the column holds a non-empty value
\* (the test of FieldAnswer.clean)
C12_Populated(col) == col # <<>> /\ col[1] # ""

\* C12: every stored FieldAnswer has exactly one of value and encrypted_value
\* populated; the row of a sensitive field has encrypted_value populated and value
\* cleared.
C12_ExactlyOneColumnPopulated ==
    \A i \in DOMAIN fieldAnswers :
        /\ C12_Populated(fieldAnswers[i].value) # C12_Populated(fieldAnswers[i].encrypted_value)
        /\ FieldById(fieldAnswers[i].field).is_sensitive
              => /\ C12_Populated(fieldAnswers[i].encrypted_value)
                 /\ fieldAnswers[i].value = <<>>

\* the stored value of the session's answer to the field, <<>> when it is NULL
StoredValue(rows, rid, fid) ==
    (CHOOSE r \in Range(AnswersOf(rows, rid)) : r.field = fid).value

\* C13: an accepted SubmitSection stores for a dropdown or radio field of its payload
\* either an empty value or the value of one of the field's FieldOption rows, and for
\* a field with has_dependencies a value among get_field_options as resolved from the
\* answers stored when the request arrived.
C13_StoredOptionsAreOffered ==
    SubmitAccepted
        => \A a \in Range(wk["w1"].req.answers) :
              /\ FieldById(a.field_id).field_type \in {"dropdown", "radio"}
                    => \/ StoredValue(fieldAnswers, wk["w1"].req.token[1], a.field_id) = <<"">>
                       \/ \E o \in FieldOptions :
                             /\ o.field = a.field_id
                             /\ StoredValue(fieldAnswers, wk["w1"].req.token[1], a.field_id)
                                    = <<o.value>>
              /\ FieldById(a.field_id).has_dependencies
                    => \E o \in Range(get_field_options(wk["w1"].pre.fieldAnswers, a.field_id,
                                                        wk["w1"].req.token[1])) :
                          StoredValue(fieldAnswers, wk["w1"].req.token[1], a.field_id)
                              = <<o.value>>

\* with G1 = "us" stored, which takes "ops" out of the options of G2, a payload
\* answering the dependent field G2 was accepted
C13_Witness ==
    /\ SubmitAccepted
    /\ wk["w1"].req.section_id = "T1"
    /\ "G1" \in DOMAIN get_all_answers_for_response(wk["w1"].pre.fieldAnswers, 1)
    /\ get_all_answers_for_response(wk["w1"].pre.fieldAnswers, 1)["G1"] = "us"
    /\ \E a \in Range(wk["w1"].req.answers) : a.field_id = "G2"
    /\ StoredValue(fieldAnswers, 1, "G2") = <<"sales">>

VisibleOf(rows, resps, i) == get_visible_sections(rows, resps[i].survey, i)

PercentageOf(rows, resps, i) == get_survey_progress(rows, resps[i].survey, i).percentage

\* the percentage of response i does not drop over a step that keeps its visible
\* sections and takes no section out of the answered ones
C14_Monotone(i) ==
    (/\ VisibleOf(fieldAnswers', responses', i) = VisibleOf(fieldAnswers, responses, i)
     /\ CompletedSections(fieldAnswers, i) \subseteq CompletedSections(fieldAnswers', i))
        => PercentageOf(fieldAnswers, responses, i) <= PercentageOf(fieldAnswers', responses', i)

\* C14 as stated: for a fixed set of visible sections the percentage never decreases
\* as more sections get an answer, and it is exactly 100.00 whenever every visible
\* section has at least one answer.
C14_FullWheneverAllAnswered ==
    [][ /\ \A i \in DOMAIN responses : C14_Monotone(i)
        /\ \A i \in DOMAIN responses' :
              VisibleOf(fieldAnswers', responses', i) \subseteq CompletedSections(fieldAnswers', i)
                  => PercentageOf(fieldAnswers', responses', i) = 10000 ]_vars

\* C14 amended: for a fixed set of visible sections the percentage never decreases
\* as more sections get an answer, and it is exactly 100.00 whenever there is at
\* least one visible section and every visible section has at least one answer
\* (with no visible section it is 0).
C14_FullWhenSomeVisibleAllAnswered ==
    [][ /\ \A i \in DOMAIN responses : C14_Monotone(i)
        /\ \A i \in DOMAIN responses' :
              /\ (/\ VisibleOf(fieldAnswers', responses', i) # {}
                  /\ VisibleOf(fieldAnswers', responses', i)
                         \subseteq CompletedSections(fieldAnswers', i))
                    => PercentageOf(fieldAnswers', responses', i) = 10000
              /\ VisibleOf(fieldAnswers', responses', i) = {}
                    => PercentageOf(fieldAnswers', responses', i) = 0 ]_vars

\* an accepted submit gave the second of two visible sections its first answer and
\* took the percentage from 50.00 to 100.00
C14_Witness ==
    /\ SubmitAccepted
    /\ VisibleOf(fieldAnswers, responses, 1) = {"S1", "S2"}
    /\ VisibleOf(wk["w1"].pre.fieldAnswers, wk["w1"].pre.responses, 1) = {"S1", "S2"}
    /\ PercentageOf(wk["w1"].pre.fieldAnswers, wk["w1"].pre.responses, 1) = 5000
    /\ PercentageOf(fieldAnswers, responses, 1) = 10000
    /\ wk["w1"].resp.body.progress.percentage = 10000

\* C18: with concurrent SubmitSection requests on one session, duplicates of one
\* payload among them, the table never holds two FieldAnswer rows for one
\* (response, field).
C18_ConcurrentUpsertsKeepOneRow ==
    \A rid \in DOMAIN responses : \A fid \in FieldIds :
        Cardinality({i \in DOMAIN fieldAnswers :
                        fieldAnswers[i].response = rid /\ fieldAnswers[i].field = fid}) <= 1

\* two requests with the same payload both found no row for its field; one has
\* created the row and the other is still about to create it
C18_Witness ==
    /\ wk["w1"].pc = "creating"
    /\ wk["w2"].pc \in {"saving", "done"}
    /\ wk["w2"].req = wk["w1"].req
    /\ \E i \in DOMAIN fieldAnswers :
          /\ fieldAnswers[i].response = wk["w1"].response.session_token
          /\ fieldAnswers[i].field = wk["w1"].req.answers[wk["w1"].next].field_id

\* Finish was asked for a session that an earlier Finish had completed
SecondFinish(t) ==
    /\ Answered("finish")
    /\ wk["w1"].req.token = <<t>>
    /\ t \in DOMAIN wk["w1"].pre.responses
    /\ wk["w1"].pre.responses[t].status = "completed"

\* C15: a Finish on a session that is already completed does not answer 200 and
\* leaves the response row, status and completed_at included, as the first Finish
\* wrote it.
C15_SecondFinishFails ==
    \A t \in DOMAIN responses :
        SecondFinish(t)
            => /\ wk["w1"].resp.http = "404"
               /\ responses = wk["w1"].pre.responses
               /\ responses[t].status = "completed"
               /\ responses[t].completed_at # <<>>

C15_Witness ==
    /\ SecondFinish(1)
    /\ 1 \in finished
    /\ wk["w1"].resp.http = "404"
    /\ responses[1].completed_at = wk["w1"].pre.responses[1].completed_at

\* the worker has answered a start request
Started(w) == wk[w].pc = "done" /\ wk[w].req.op = "start"

\* C16: Start answers 201 only for a survey whose status is published; it then adds
\* exactly one response, in_progress, without completed_at, for that survey, under a
\* token no earlier response has, and changes no other row.  For a draft, closed or
\* unknown survey it answers 404 and adds nothing.
C16_StartOnlyPublished ==
    [][ \A w \in Workers :
          (wk[w].pc = "idle" /\ Started(w)')
              => IF \E sv \in Surveys :
                        sv.id = wk'[w].req.survey_pk /\ sv.status = "published"
                     THEN /\ wk'[w].resp.http = "201"
                          /\ Len(responses') = Len(responses) + 1
                          /\ SubSeq(responses', 1, Len(responses)) = responses
                          /\ LET new == responses'[Len(responses')]
                             IN  /\ new.survey = wk'[w].req.survey_pk
                                 /\ new.status = "in_progress"
                                 /\ new.completed_at = <<>>
                                 /\ new.session_token = wk'[w].resp.body.session_token
                                 /\ \A i \in DOMAIN responses :
                                       responses[i].session_token # new.session_token
                 ELSE /\ wk'[w].resp.http = "404"
                      /\ responses' = responses ]_vars

\* both kinds of answer at once: one worker has started a second session on the
\* published survey, the other was refused a survey that is not published
C16_Witness ==
    /\ Started("w1") /\ wk["w1"].resp.http = "201"
    /\ Len(wk["w1"].pre.responses) = 1
    /\ Len(responses) = 2
    /\ Started("w2") /\ wk["w2"].resp.http = "404"
    /\ wk["w2"].req.survey_pk \in {"sv0", "sv4"}

\* the step is one of worker w handling a SubmitSection or a Finish of session t
StepOfSession(w, t) ==
    /\ wk'[w] # wk[w]
    /\ \/ wk'[w].pc # "idle" /\ wk'[w].req.op \in {"submit", "finish"}
             /\ wk'[w].req.token = <<t>>
       \/ wk'[w].pc = "idle" /\ wk[w].req.op \in {"submit", "finish"}
             /\ wk[w].req.token = <<t>>

\* C17: a step of a SubmitSection or a Finish of one session, in any interleaving
\* with the requests of another session of the same survey, changes neither the
\* other session's response row (status, completed_at, last_section), nor its
\* answers, nor its visible sections, nor its progress.
C17_OtherSessionsUntouched ==
    [][ \A w \in Workers : \A t, j \in DOMAIN responses :
          (StepOfSession(w, t) /\ j # t)
              => /\ responses'[j] = responses[j]
                 /\ AnswersOf(fieldAnswers', j) = AnswersOf(fieldAnswers, j)
                 /\ get_visible_sections(fieldAnswers', responses[j].survey, j)
                        = get_visible_sections(fieldAnswers, responses[j].survey, j)
                 /\ get_survey_progress(fieldAnswers', responses[j].survey, j)
                        = get_survey_progress(fieldAnswers, responses[j].survey, j) ]_vars

\* two sessions of sv1 with different answers and different visible sections, each
\* with a SubmitSection in flight that has rewritten an answer its session had
C17_Witness ==
    /\ Len(responses) = 2
    /\ responses[1].survey = responses[2].survey
    /\ wk["w1"].req.op = "submit" /\ wk["w1"].req.token = <<1>> /\ wk["w1"].pc = "saving"
    /\ wk["w2"].req.op = "submit" /\ wk["w2"].req.token = <<2>> /\ wk["w2"].pc = "saving"
    /\ responses[1].last_section # NULL
    /\ responses[2].last_section # NULL
    /\ get_visible_sections(fieldAnswers, "sv1", 1) = {"S1"}
    /\ get_visible_sections(fieldAnswers, "sv1", 2) = {"S1", "S2"}
    /\ AnswersOf(fieldAnswers, 2) # <<>>


----------------------------------------------------------------------------
(* Properties of the rule logic, under SpecLogic: once a call has returned, worker *)
(* w1 holds its arguments (req) and its result (resp.result).                      *)

Returned(op) == wk["w1"].pc = "done" /\ wk["w1"].req.op = op

\* C19: when the answers hold no answer for the rule's source field, or the empty
\* string, evaluate_rule is true for is_empty and false for every other operator;
\* when they hold a non-empty string, is_empty is false and is_not_empty is true
C19_EmptyAnswerMeetsOnlyIsEmpty ==
    Returned("evaluate_rule") =>
        LET rule == wk["w1"].req.rule
            answers == wk["w1"].req.answers
            result == wk["w1"].resp.result
        IN  IF rule.source_field \notin DOMAIN answers \/ answers[rule.source_field] = ""
                THEN result = (rule.operator = "is_empty")
            ELSE /\ rule.operator = "is_empty" => ~result
                 /\ rule.operator = "is_not_empty" => result

\* evaluate_rule returned false for `equals` with an empty rule value on an empty answer
C19_Witness ==
    /\ Returned("evaluate_rule")
    /\ wk["w1"].req.rule.operator = "equals"
    /\ wk["w1"].req.rule.value = ""
    /\ "F1" \in DOMAIN wk["w1"].req.answers
    /\ wk["w1"].req.answers["F1"] = ""
    /\ wk["w1"].resp.result = FALSE

\* the rules of a list that decide target x: those aimed at x whose condition is true
Deciding(rules, answers, x) ==
    {i \in DOMAIN rules : rules[i].target_id = x /\ evaluate_rule(rules[i], answers)}

\* x is visible after the rules: as the last deciding rule says, or as it started
VisibleAfter(rules, answers, initial, x) ==
    IF Deciding(rules, answers, x) = {} THEN x \in initial
    ELSE LET last == CHOOSE i \in Deciding(rules, answers, x) :
                         \A j \in Deciding(rules, answers, x) : j <= i
         IN  rules[last].action = "show"

\* C20: the visible sections are all sections of the survey, changed by the section
\* rules whose condition is true, each adding (show) or removing (hide) its target,
\* the last such rule of a target deciding; the visible fields of a section are its
\* fields, changed the same way by the field rules whose target is one of them
C20_VisibleIsFoldOfTrueRules ==
    /\ Returned("visible_sections") =>
           LET rules == wk["w1"].req.rules
               all_sections == {s.id : s \in {t \in Sections : t.survey = wk["w1"].req.survey}}
           IN  \A x \in SectionIds \cup wk["w1"].resp.result :
                   x \in wk["w1"].resp.result
                       <=> VisibleAfter(rules, wk["w1"].req.answers, all_sections, x)
    /\ Returned("visible_fields") =>
           LET all_fields == {f.id : f \in {g \in Fields : g.section = wk["w1"].req.section}}
               rules == SelectSeq(wk["w1"].req.rules, LAMBDA r : r.target_id \in all_fields)
           IN  \A x \in FieldIds \cup wk["w1"].resp.result :
                   x \in wk["w1"].resp.result
                       <=> VisibleAfter(rules, wk["w1"].req.answers, all_fields, x)

\* two rules met by the answer "no" aim at section S2, hide first and show last, and
\* S2 is visible
C20_Witness ==
    /\ Returned("visible_sections")
    /\ Len(wk["w1"].req.rules) = 2
    /\ wk["w1"].req.rules[1].target_id = "S2" /\ wk["w1"].req.rules[1].action = "hide"
    /\ wk["w1"].req.rules[2].target_id = "S2" /\ wk["w1"].req.rules[2].action = "show"
    /\ wk["w1"].req.rules[1].operator = "equals"
    /\ wk["w1"].req.rules[2].operator = "is_not_empty"
    /\ wk["w1"].req.answers = DictPut(EmptyDict, "F1", "no")
    /\ wk["w1"].resp.result = {"S1", "S2"}


----------------------------------------------------------------------------
(* Properties of the options of a field *)

\* the plain value the session has stored for the field, "" when it has none
PlainStored(rows, rid, fid) ==
    LET mine == {r \in Range(AnswersOf(rows, rid)) : r.field = fid}
    IN  IF mine = {} THEN ""
        ELSE LET r == CHOOSE x \in mine : TRUE
             IN  IF r.value = <<>> THEN "" ELSE r.value[1]

\* options is the list of the field's own FieldOption rows, lowest order first
IsOwnOptions(options, fid) ==
    LET own == {o \in FieldOptions : o.field = fid}
    IN  /\ Len(options) = Cardinality(own)
        /\ \A o \in own :
               options[Cardinality({p \in own : p.order <= o.order})]
                   = [label |-> o.label, value |-> o.value]

\* the dependency rows of the field whose source_value is the stored source answer
MatchingRows(rows, rid, fid) ==
    {i \in DOMAIN FieldDependencies :
        /\ FieldDependencies[i].dependent_field = fid
        /\ FieldDependencies[i].source_value
               = PlainStored(rows, rid, FieldDependencies[i].source_field)}

\* C21: for every session, get_field_options of a field without dependencies is the
\* field's own options in order, whatever is stored; of a field with dependencies it
\* is the dependent_options of the first dependency row whose source_value equals the
\* stored answer of the source field, and the field's own options when no row matches
C21_OptionsFollowSourceAnswer ==
    \A rid \in DOMAIN responses, f \in Fields :
        IF f.has_dependencies /\ MatchingRows(fieldAnswers, rid, f.id) # {}
            THEN LET first == CHOOSE i \in MatchingRows(fieldAnswers, rid, f.id) :
                                  \A j \in MatchingRows(fieldAnswers, rid, f.id) : i <= j
                 IN  get_field_options(fieldAnswers, f.id, rid)
                         = FieldDependencies[first].dependent_options
        ELSE /\ IsOwnOptions(get_field_options(fieldAnswers, f.id, rid), f.id)
             /\ f.field_type \in {"dropdown", "radio"}
                    => get_field_options(fieldAnswers, f.id, rid) # <<>>

\* the source answer G1 was "us", a submission changed it to "ng", which no dependency
\* row names, and the options of G2 are its own two options again
C21_Witness ==
    /\ SubmitAccepted
    /\ PlainStored(wk["w1"].pre.fieldAnswers, 1, "G1") = "us"
    /\ {o.value : o \in Range(get_field_options(wk["w1"].pre.fieldAnswers, "G2", 1))}
           = {"sales", "support"}
    /\ PlainStored(fieldAnswers, 1, "G1") = "ng"
    /\ {o.value : o \in Range(get_field_options(fieldAnswers, "G2", 1))} = {"sales", "ops"}


----------------------------------------------------------------------------
(* Properties of navigation *)

\* the sections of the survey that are visible and hold no answer of the response
Unanswered(rows, sv, rid) ==
    {s \in Sections :
        /\ s.survey = sv
        /\ s.id \in get_visible_sections(rows, sv, rid)
        /\ ~\E r \in Range(rows) : r.response = rid /\ FieldById(r.field).section = s.id}

\* C22: get_current_section returns the lowest-order visible section without a stored
\* answer and is_complete = false; when there is no such section it returns no section
\* and is_complete = true.  One answer makes a section done, whatever its required
\* fields hold.
C22_CurrentIsFirstUnanswered ==
    Returned("current_section") =>
        LET open == Unanswered(wk["w1"].req.rows, wk["w1"].req.survey, wk["w1"].req.rid)
            result == wk["w1"].resp.result
        IN  IF open = {}
                THEN result.current_section = NULL /\ result.is_complete
            ELSE /\ result.current_section
                        = (CHOOSE s \in open : \A t \in open : s.order <= t.order).id
                 /\ ~result.is_complete

\* S1 is answered and S2 holds an answer to F3 only, its required field F4 has none:
\* no section is returned and the survey counts as complete
C22_Witness ==
    /\ Returned("current_section")
    /\ {r.field : r \in Range(wk["w1"].req.rows)} = {"F1", "F3"}
    /\ "S2" \in get_visible_sections(wk["w1"].req.rows, "sv1", 1)
    /\ FieldById("F4").is_required
    /\ wk["w1"].resp.result.current_section = NULL
    /\ wk["w1"].resp.result.is_complete


----------------------------------------------------------------------------
(* Properties of the error answers *)

\* C23: a submit-section request with the token of a finished session is answered
\* with HTTP 400 and stores nothing
C23_SubmitOnFinishedIs400 ==
    (/\ Answered("submit")
     /\ wk["w1"].req.token # <<>>
     /\ wk["w1"].req.token[1] \in DOMAIN wk["w1"].pre.responses
     /\ wk["w1"].pre.responses[wk["w1"].req.token[1]].status = "completed")
        => /\ wk["w1"].resp.http = "400"
           /\ fieldAnswers = wk["w1"].pre.fieldAnswers
           /\ responses = wk["w1"].pre.responses

\* the value is a number: a JSON integer, or a text of decimal digits with an
\* optional sign
IsNumber(v) ==
    \/ v.t = "int"
    \/ /\ v.t = "str"
       /\ LET cs == Chars(v.s)
              body == IF cs # <<>> /\ cs[1] \in {"+", "-"} THEN Tail(cs) ELSE cs
          IN  body # <<>> /\ \A i \in DOMAIN body : body[i] \in Digits

\* C24: a submission that passes the visibility checks and gives a number field a
\* value that is not a number is answered 400 with an error for that field and stores
\* nothing; a number, as text or as a JSON number, gets no error
C24_NonNumbersRejected ==
    \A rid \in DOMAIN wk["w1"].pre.responses :
        (/\ ReachedValidation(rid)
         /\ validate_submission(wk["w1"].pre.fieldAnswers, wk["w1"].req.section_id,
                                wk["w1"].req.answers, wk["w1"].pre.responses[rid].survey,
                                rid).is_valid)
            => \A a \in Range(wk["w1"].req.answers) :
                   (FieldById(a.field_id).field_type = "number" /\ ~IsBlank(a.value))
                       => IF IsNumber(a.value)
                              THEN a.field_id \notin DOMAIN wk["w1"].resp.errors
                          ELSE /\ wk["w1"].resp.http = "400"
                               /\ a.field_id \in DOMAIN wk["w1"].resp.errors
                               /\ fieldAnswers = wk["w1"].pre.fieldAnswers

\* the handler left both tables as it found them
NothingWritten ==
    /\ fieldAnswers = wk["w1"].pre.fieldAnswers
    /\ responses = wk["w1"].pre.responses

\* the request carried a token that no stored response has
UnknownToken ==
    /\ wk["w1"].req.token # <<>>
    /\ \A i \in DOMAIN wk["w1"].pre.responses :
           wk["w1"].pre.responses[i].session_token # wk["w1"].req.token[1]

\* submit-section named a section that is no section of the survey of its in-progress
\* session
ForeignSection ==
    /\ Answered("submit")
    /\ wk["w1"].req.token # <<>>
    /\ \E i \in DOMAIN wk["w1"].pre.responses :
           /\ wk["w1"].pre.responses[i].session_token = wk["w1"].req.token[1]
           /\ wk["w1"].pre.responses[i].status = "in_progress"
           /\ ~\E s \in Sections : /\ s.id = wk["w1"].req.section_id
                                   /\ s.survey = wk["w1"].pre.responses[i].survey

\* C25: submit-section, current-section, sections/{id} and finish answer 400 to a
\* request without a session token and 404 to a token that no response has;
\* submit-section answers 404 when its section is no section of the session's survey;
\* none of these requests writes to a table
C25_BadRequestsChangeNothing ==
    (wk["w1"].pc = "done" /\ wk["w1"].req.op \in {"submit", "current", "section", "finish"})
        => /\ wk["w1"].req.token = <<>> => wk["w1"].resp.http = "400" /\ NothingWritten
           /\ UnknownToken => wk["w1"].resp.http = "404" /\ NothingWritten
           /\ ForeignSection => wk["w1"].resp.http = "404" /\ NothingWritten

\* a session of sv1 with a stored answer submitted section T1 of survey sv2 and got 404
C25_Witness ==
    /\ ForeignSection
    /\ wk["w1"].req.section_id = "T1"
    /\ wk["w1"].pre.responses[1].survey = "sv1"
    /\ wk["w1"].pre.fieldAnswers # <<>>
    /\ wk["w1"].resp.http = "404"

\* the payload names a field that is no field of the submitted section
ForeignFields(req) ==
    {a.field_id : a \in {b \in Range(req.answers) :
                            FieldById(b.field_id).section # req.section_id}}

\* the rows of the table that the handler created or changed
RowsWritten == Range(fieldAnswers) \ Range(wk["w1"].pre.fieldAnswers)

----------------------------------------------------------------------------
(* Properties of show rules and of rules that cannot be evaluated *)

\* the targets of show rules of the list of which no show rule is met by the answers
UnmetShowTargets(rules, answers) ==
    {rules[i].target_id : i \in {k \in DOMAIN rules : rules[k].action = "show"}}
        \ {rules[i].target_id :
               i \in {k \in DOMAIN rules : /\ rules[k].action = "show"
                                           /\ evaluate_rule(rules[k], answers)}}

\* C27: a section or field that is the target of a show rule is in the visible set
\* only when the answers meet the condition of such a rule
C27_ShowTargetHiddenUntilMet ==
    (Returned("visible_sections") \/ Returned("visible_fields"))
        => UnmetShowTargets(wk["w1"].req.rules, wk["w1"].req.answers)
               \cap wk["w1"].resp.result = {}


----------------------------------------------------------------------------
(* Properties of the sections endpoint *)

\* the session holds a row for the field with a non-empty value or ciphertext
HasStoredAnswer(rows, rid, fid) ==
    \E r \in Range(AnswersOf(rows, rid)) :
        r.field = fid /\ (Truthy(r.value) \/ r.encrypted_value # <<>>)

\* the sections request of a known session asked for a section that is no section of
\* the session's survey
NoSuchSection(rid) ==
    ~\E s \in Sections : /\ s.id = wk["w1"].req.section_id
                          /\ s.survey = responses[rid].survey

NotNumeric(text) == ~IsNumber(JStr(text)) /\ text \notin {"NaN"}

\* the comparison rules of which the operand is not numeric
Malformed(rule) ==
    /\ rule.operator \in {"greater_than", "less_than"}
    /\ NotNumeric(IF rule.value = NULL THEN "" ELSE rule.value)

\* C29: evaluate_rule is false for a greater_than or less_than rule when the answer or
\* the operand is not numeric, and a rule list holding such rules yields the visible
\* sections and fields that the list without them yields
C29_MalformedComparisonIsFalse ==
    /\ (Returned("evaluate_rule")
            /\ wk["w1"].req.rule.operator \in {"greater_than", "less_than"}
            /\ \/ Malformed(wk["w1"].req.rule)
               \/ NotNumeric(DictGet(wk["w1"].req.answers, wk["w1"].req.rule.source_field, "")))
           => wk["w1"].resp.result = FALSE
    /\ Returned("visible_sections")
           => wk["w1"].resp.result
                  = VisibleSectionsWith(SelectSeq(wk["w1"].req.rules, LAMBDA r : ~Malformed(r)),
                                        wk["w1"].req.survey, wk["w1"].req.answers)
    /\ Returned("visible_fields")
           => wk["w1"].resp.result
                  = VisibleFieldsWith(SelectSeq(wk["w1"].req.rules, LAMBDA r : ~Malformed(r)),
                                      wk["w1"].req.section, wk["w1"].req.answers)

\* the section rules "hide S2 when F1 > abc" ran on the answer F1 = 42 and S2 stayed
\* visible
C29_Witness ==
    /\ Returned("visible_sections")
    /\ Len(wk["w1"].req.rules) = 1
    /\ Malformed(wk["w1"].req.rules[1])
    /\ wk["w1"].req.rules[1].target_id = "S2"
    /\ wk["w1"].req.rules[1].action = "hide"
    /\ wk["w1"].req.answers = DictPut(EmptyDict, "F1", "42")
    /\ wk["w1"].resp.result = {"S1", "S2"}

----------------------------------------------------------------------------
(* Properties of the answers dict when a stored value does not decrypt *)

\* the row holds an encrypted value of a sensitive field that decrypt rejects
Undecryptable(r) ==
    /\ FieldById(r.field).is_sensitive
    /\ r.encrypted_value = <<Damaged>>

\* the table without the rows that do not decrypt
Readable(rows) == SelectSeq(rows, LAMBDA r : ~Undecryptable(r))

\* the plain text a readable row stands for
PlainOf(r) ==
    IF r.encrypted_value # <<>> THEN r.encrypted_value[1].ct
    ELSE IF r.value = <<>> THEN ""
    ELSE r.value[1]

\* C30: the answers dict leaves out every answer of which the decryption fails and
\* holds every other answer of the response with its plain value; the visible
\* sections under rules on that field, and the options under dependencies on it,
\* are those of the table without the undecryptable rows
C30_UndecryptableAnswerIsSkipped ==
    /\ Returned("all_answers")
           => LET mine == Range(AnswersOf(wk["w1"].req.rows, wk["w1"].req.rid))
              IN  /\ DOMAIN wk["w1"].resp.result = {r.field : r \in {x \in mine : ~Undecryptable(x)}}
                  /\ \A r \in mine : ~Undecryptable(r) => wk["w1"].resp.result[r.field] = PlainOf(r)
    /\ Returned("stored_visible_sections")
           => wk["w1"].resp.result
                  = VisibleSectionsWith(wk["w1"].req.rules, wk["w1"].req.survey,
                        get_all_answers_for_response(Readable(wk["w1"].req.rows), wk["w1"].req.rid))
    /\ Returned("field_options")
           => wk["w1"].resp.result
                  = FieldOptionsWith(wk["w1"].req.deps, Readable(wk["w1"].req.rows),
                                     wk["w1"].req.field, wk["w1"].req.rid)

\* the accessor read a table holding an undecryptable F2 before an F4 answer and
\* returned the F4 answer alone
C30_Witness ==
    /\ Returned("all_answers")
    /\ \E r \in Range(wk["w1"].req.rows) : r.field = "F2" /\ Undecryptable(r)
    /\ \E r \in Range(wk["w1"].req.rows) : r.field = "F4" /\ r.value = <<"abc">>
    /\ wk["w1"].resp.result = DictPut(EmptyDict, "F4", "abc")

----------------------------------------------------------------------------
(* Properties of the progress counts *)

\* the counts of a progress dict fit together
ProgressConsistent(p) ==
    /\ 0 <= p.sections_completed
    /\ p.sections_completed <= p.total_sections
    /\ p.sections_remaining = p.total_sections - p.sections_completed

\* C33: for every session, in every reachable state, the progress has
\* 0 <= sections_completed <= total_sections and sections_remaining =
\* total_sections - sections_completed, and get_current_section reports is_complete
\* exactly when sections_remaining = 0; the answers of current-section, sections/{id}
\* and submit-section carry such a progress
C33_ProgressCountsConsistent ==
    /\ \A i \in DOMAIN responses :
           LET p == get_survey_progress(fieldAnswers, responses[i].survey, i)
           IN  /\ ProgressConsistent(p)
               /\ get_current_section(fieldAnswers, responses[i].survey, i).is_complete
                      <=> p.sections_remaining = 0
    /\ (\/ Answered("current") \/ Answered("section") \/ Answered("submit")) /\ wk["w1"].resp.http = "200"
           => ProgressConsistent(wk["w1"].resp.body.progress)
    /\ Answered("current") /\ wk["w1"].resp.http = "200"
           => (wk["w1"].resp.body.is_complete
                  <=> wk["w1"].resp.body.progress.sections_remaining = 0)

\* current-section answered a session that holds an answer in S2 and whose S2 is
\* hidden: one section of one completed, none remaining, complete
C33_Witness ==
    /\ Answered("current")
    /\ wk["w1"].resp.http = "200"
    /\ "S2" \in CompletedSections(fieldAnswers, 1)
    /\ get_visible_sections(fieldAnswers, "sv1", 1) = {"S1"}
    /\ wk["w1"].resp.body.progress.total_sections = 1
    /\ wk["w1"].resp.body.progress.sections_completed = 1
    /\ wk["w1"].resp.body.is_complete

----------------------------------------------------------------------------
(* Properties of finish *)

\* finish was asked for a session that was in progress
FinishOfOpenSession(rid) ==
    /\ Answered("finish")
    /\ wk["w1"].req.token = <<rid>>
    /\ rid \in DOMAIN wk["w1"].pre.responses
    /\ wk["w1"].pre.responses[rid].status = "in_progress"

\* C34: finish succeeds on every in_progress response whatever its progress, and
\* changes only status and completed_at: the stored answers, last_section, the
\* visible sections and the progress are as before, no other response changes, and
\* current-section and sections/{id} answer 200 for a finished session
C34_FinishChangesOnlyStatus ==
    /\ \A rid \in DOMAIN responses :
           FinishOfOpenSession(rid)
               => LET before == wk["w1"].pre.responses[rid]
                      sv == before.survey
                  IN  /\ wk["w1"].resp.http = "200"
                      /\ responses[rid].status = "completed"
                      /\ responses[rid].completed_at # <<>>
                      /\ [responses[rid] EXCEPT !.status = before.status,
                                                !.completed_at = before.completed_at] = before
                      /\ \A o \in DOMAIN responses :
                             o # rid => responses[o] = wk["w1"].pre.responses[o]
                      /\ fieldAnswers = wk["w1"].pre.fieldAnswers
                      /\ get_visible_sections(fieldAnswers, sv, rid)
                             = get_visible_sections(wk["w1"].pre.fieldAnswers, sv, rid)
                      /\ get_survey_progress(fieldAnswers, sv, rid)
                             = get_survey_progress(wk["w1"].pre.fieldAnswers, sv, rid)
    /\ \A rid \in DOMAIN responses :
           (/\ responses[rid].status = "completed"
            /\ wk["w1"].pc = "done"
            /\ wk["w1"].req.op \in {"current", "section"}
            /\ wk["w1"].req.token = <<rid>>)
               => \/ wk["w1"].resp.http = "200"
                  \/ /\ wk["w1"].req.op = "section"
                     /\ wk["w1"].req.section_id
                            \notin get_visible_sections(fieldAnswers, responses[rid].survey, rid)

\* finish answered 200 for a session of sv1 without any stored answer
C34_Witness ==
    /\ FinishOfOpenSession(1)
    /\ wk["w1"].pre.responses[1].survey = "sv1"
    /\ AnswersOf(wk["w1"].pre.fieldAnswers, 1) = <<>>
    /\ get_survey_progress(fieldAnswers, "sv1", 1).sections_completed = 0
    /\ wk["w1"].resp.http = "200"
    /\ responses[1].status = "completed"

----------------------------------------------------------------------------
(* Properties relating the options offered to the options accepted *)

\* the option values sections/{id} offered for the field on the tables the handler
\* found, for a session of survey sv
OfferedValues(rid, sv, sid, fid) ==
    LET shown == get_section(wk["w1"].pre.fieldAnswers, sid, sv, rid)
    IN  IF ~shown.found THEN {}
        ELSE UNION {{o.value : o \in Range(info.options[1])} :
                       info \in {x \in Range(shown.section.fields) :
                                    /\ x.field_id = fid
                                    /\ x.field_type \in {"dropdown", "radio"}
                                    /\ x.options # <<>>}}

\* C35: every option value the section views offer for a visible dropdown or radio
\* field is accepted by submit-section for that field on the same stored answers:
\* the answer carries no error for the field
C35_OfferedOptionsAreAccepted ==
    \A rid \in DOMAIN responses :
        ReachedValidation(rid)
            => \A a \in Range(wk["w1"].req.answers) :
                  PyStr(a.value) \in OfferedValues(rid, wk["w1"].pre.responses[rid].survey,
                                                   wk["w1"].req.section_id, a.field_id)
                      => a.field_id \notin DOMAIN wk["w1"].resp.errors

----------------------------------------------------------------------------
(* Properties of what submit-section resolves visibility and options from *)

\* src is the source field of a rule on field x or on its section, or of a
\* dependency of x
IsSourceFor(src, x) ==
    \/ \E r \in Range(ConditionalRules) :
           /\ r.source_field = src
           /\ r.target_id \in {x, FieldById(x).section}
    \/ \E d \in Range(FieldDependencies) : d.source_field = src /\ d.dependent_field = x

\* the answer of submit-section carries an error for the field
RejectsField(out, fid) == ~out.ok /\ fid \in DOMAIN out.resp.errors

\* C36: whether submit-section reports an error for the answer to a field X does not
\* depend on the value the same payload carries for the source field of a rule or
\* dependency that targets X: with any other value for that source field, on the
\* same stored answers, X is rejected exactly when it was rejected
C36_SamePayloadSourceIsIgnored ==
    \A rid \in DOMAIN responses :
        ReachedValidation(rid)
            => LET req == wk["w1"].req
               IN  \A i, j \in DOMAIN req.answers :
                      (i # j /\ IsSourceFor(req.answers[j].field_id, req.answers[i].field_id))
                          => \A c \in AnswerChoices :
                                c.field_id = req.answers[j].field_id
                                    => (req.answers[i].field_id \in DOMAIN wk["w1"].resp.errors
                                           <=> RejectsField(
                                                   SubmitOutcome(wk["w1"].pre.responses,
                                                                 wk["w1"].pre.fieldAnswers,
                                                                 [req EXCEPT !.answers[j] = c]),
                                                   req.answers[i].field_id))

\* with no answer to F3 stored, a payload carrying F3 = 42 and F4, which the field
\* rule hides when F3 > 18, was accepted and F4 was stored
C36_Witness ==
    /\ SubmitAccepted
    /\ wk["w1"].req.section_id = "S2"
    /\ "F3" \notin DOMAIN get_all_answers_for_response(wk["w1"].pre.fieldAnswers, 1)
    /\ \E a \in Range(wk["w1"].req.answers) : a.field_id = "F3" /\ PyStr(a.value) = "42"
    /\ \E a \in Range(wk["w1"].req.answers) : a.field_id = "F4"
    /\ "F4" \notin get_visible_fields(fieldAnswers, "S2", 1)
    /\ StoredValue(fieldAnswers, 1, "F4") = <<"abc">>

----------------------------------------------------------------------------
(* Properties of the lifetime of stored answers *)

\* the (response, field) pairs that have a FieldAnswer row
AnsweredPairs(rows) == {<<r.response, r.field>> : r \in Range(rows)}

\* C37: no step of start, submit-section or finish deletes a FieldAnswer: the
\* (response, field) pairs with a row only grow, and every row, whether its field or
\* section is visible or hidden, is in the answers dict that rules and dependencies
\* are evaluated on
C37_AnswersAreNeverDeleted ==
    [][ /\ AnsweredPairs(fieldAnswers) \subseteq AnsweredPairs(fieldAnswers')
        /\ \A r \in Range(fieldAnswers') :
               LET d == get_all_answers_for_response(fieldAnswers', r.response)
               IN  /\ r.field \in DOMAIN d
                   /\ ~FieldById(r.field).is_sensitive => d[r.field] = r.value[1] ]_vars

\* S2 is hidden for the session, its answer F3 = 42 is still stored and still hides
\* F4 in the field rules
C37_Witness ==
    /\ SubmitAccepted
    /\ wk["w1"].req.section_id = "S1"
    /\ "S2" \in get_visible_sections(wk["w1"].pre.fieldAnswers, "sv1", 1)
    /\ "S2" \notin get_visible_sections(fieldAnswers, "sv1", 1)
    /\ <<1, "F3">> \in AnsweredPairs(fieldAnswers)
    /\ get_all_answers_for_response(fieldAnswers, 1)["F3"] = "42"
    /\ "F4" \notin get_visible_fields(fieldAnswers, "S2", 1)

----------------------------------------------------------------------------
(* Properties of the walk through the sections *)

\* the accepted submit was for the section current-section named on the tables the
\* handler found
SubmittedCurrentSection(rid) ==
    /\ SubmitAccepted
    /\ wk["w1"].req.token = <<rid>>
    /\ wk["w1"].req.section_id
           = get_current_section(wk["w1"].pre.fieldAnswers, wk["w1"].pre.responses[rid].survey,
                                 rid).current_section

\* C38: every successful submit-section for the section that current-section returns
\* makes that section count as completed, so that each such submit takes the
\* respondent one section closer to is_complete
C38_SubmittedCurrentSectionIsCompleted ==
    \A rid \in DOMAIN responses :
        SubmittedCurrentSection(rid)
            => /\ wk["w1"].req.section_id \in CompletedSections(fieldAnswers, rid)
               /\ get_current_section(fieldAnswers, responses[rid].survey, rid).current_section
                      # wk["w1"].req.section_id

----------------------------------------------------------------------------
(* Properties of the analytics cache *)

\* the counts of the responses now stored for the survey
FreshCounts(survey_id) ==
    LET mine == {i \in DOMAIN responses : responses[i].survey = survey_id}
        done == {i \in mine : responses[i].status = "completed"}
    IN  [total |-> Cardinality(mine), completed |-> Cardinality(done),
         in_progress |-> Cardinality(mine \ done)]

\* the result dict carries these counts for the survey
HasCounts(result, survey_id, counts) ==
    /\ result.survey_id = survey_id
    /\ result.total_responses = counts.total
    /\ result.completed_responses = counts.completed
    /\ result.in_progress_responses = counts.in_progress

\* the step is a call of the service operation `op`
ServiceCall(op) == wk["w1"].pc = "idle" /\ wk'["w1"].pc = "done" /\ wk'["w1"].req.op = op

\* C32: a call with caching enabled that finds a live entry returns that entry and
\* leaves the cache alone, whatever responses were started or finished since it
\* was stored; a call with use_cache = False, or one that finds no entry (as the
\* first call after invalidate_survey_cache does), returns the counts of the
\* responses stored now and stores that result under the survey's key; an unknown
\* survey stores nothing; no other step writes an entry
C32_CacheServesStoredResults ==
    [][ /\ ServiceCall("analytics")
           => LET sv == wk'["w1"].req.survey_id
                  key == CacheKey(sv)
                  result == wk'["w1"].resp.result
              IN  IF wk'["w1"].req.use_cache /\ key \in DOMAIN cache
                      THEN result = <<cache[key]>> /\ cache' = cache
                  ELSE IF sv \notin SurveyIds
                      THEN result = <<>> /\ cache' = cache
                  ELSE /\ result # <<>>
                       /\ HasCounts(result[1], sv, FreshCounts(sv))
                       /\ DOMAIN cache' = DOMAIN cache \cup {key}
                       /\ cache'[key] = result[1]
                       /\ \A k \in DOMAIN cache \ {key} : cache'[k] = cache[k]
        /\ ServiceCall("invalidate")
           => /\ DOMAIN cache' = DOMAIN cache \ {CacheKey(wk'["w1"].req.survey_id)}
              /\ \A k \in DOMAIN cache' : cache'[k] = cache[k]
        /\ ~ServiceCall("analytics")
           => /\ DOMAIN cache' \subseteq DOMAIN cache
              /\ \A k \in DOMAIN cache' : cache'[k] = cache[k] ]_vars

\* a call with caching enabled was served an entry for sv1 that counts one response
\* in progress, while two responses of sv1 are stored and one of them is completed
C32_Witness ==
    /\ Returned("analytics")
    /\ wk["w1"].req.use_cache
    /\ wk["w1"].req.survey_id = "sv1"
    /\ wk["w1"].resp.result # <<>>
    /\ wk["w1"].resp.result[1].total_responses = 1
    /\ wk["w1"].resp.result[1].completed_responses = 0
    /\ FreshCounts("sv1") = [total |-> 2, completed |-> 1, in_progress |-> 1]
    /\ CacheKey("sv1") \in DOMAIN cache
    /\ cache[CacheKey("sv1")] = wk["w1"].resp.result[1]

----------------------------------------------------------------------------
(* Properties of login sessions *)

\* worker w1 answers, in this step, a request that presents an issued token
PresentsToken(op) ==
    /\ wk["w1"].pc = "idle"
    /\ wk'["w1"].pc = "done"
    /\ wk'["w1"].req.op = op
    /\ wk'["w1"].req.raw \in tokens

\* the token fits the endpoint: a bearer token is an access token, the body of
\* /refresh a refresh token
FitsEndpoint(op, token) ==
    token.token_type = (IF op = "refresh" THEN "refresh" ELSE "access")

=============================================================================
